---- MODULE Spec2Model ----
(***************************************************************************)
(* CTA pipeline: the optimization engine (AnalysisService), the site       *)
(* crawler (CrawlerService) and the image path (OCRService), as state      *)
(* machines translated from the Python sources.                            *)
(*                                                                         *)
(* Numbers: confidence_score is kept in tenths (0.7 is 7, 1.0 is 10).      *)
(* Texts are sequences of words; the empty string is the empty sequence.   *)
(***************************************************************************)
EXTENDS Integers, Sequences, FiniteSets, TLC

VARIABLES
    \* ---- AnalysisService.optimize_ctas
    ctas,               \* the input candidate list
    opt_pc,             \* "start" | "call" | "done" | "raised"
    batch_start,        \* loop variable i of range(0, len(ctas), batch_size)
    all_optimizations,  \* the result list being built
    api_calls,          \* number of backend calls issued so far
    batch_log,          \* history: one record per processed batch
    \* ---- CrawlerService.crawl_website
    start_url, max_pages, max_depth,
    crawl_pc,           \* "init" | "loop" | "done"
    visited_urls, crawl_queue, page_analyses,
    analysed,           \* history: URLs handed to _analyze_page_async
    skipped,            \* history: queue entries dropped as already visited
    \* ---- _process_image_analysis / OCRService.process_image_data
    image,              \* the uploaded image
    img_pc,             \* "pending" | "processing" | "decoded" | "ocr_done" | "completed" | "failed"
    ocr_calls,          \* number of pytesseract invocations
    img_error,          \* job.error_message kind
    \* ---- CTAExtractor / CTALiteralAnalyzer
    html_in,            \* the HTML given to the extraction calls
    text_in,            \* the text given to extract_from_text
    seen_ctas,          \* CTAExtractor.seen_ctas of each instance
    extract_log,        \* history: one record per extraction call
    \* ---- _create_fallback_optimizations
    fallback_passes,    \* history: the result list of each fallback pass
    \* ---- analysis jobs (api/endpoints.py)
    request,            \* the request body of the job
    job_storage,        \* job id -> AnalysisJob
    results_storage,    \* job id -> AnalysisResults
    task,               \* the background task: its position and its job id
    \* ---- ScraperService.analyze_multiple_pages
    mp_urls,            \* the input list urls
    mp_pc,              \* "start" | "gather" | "returned"
    semaphore,          \* free slots of asyncio.Semaphore(5)
    mp_tasks,           \* per input position: where bounded_analyze stands
    mp_analyses,        \* the returned list
    \* ---- the job registry under concurrent requests (api/endpoints.py)
    tasks,              \* job id -> the background task and its job object
    deleted_jobs,       \* history: ids for which delete_job succeeded
    last_response       \* the latest HTTP response: endpoint and status code

optVars   == <<ctas, opt_pc, batch_start, all_optimizations, api_calls, batch_log>>
crawlVars == <<start_url, max_pages, max_depth, crawl_pc, visited_urls,
               crawl_queue, page_analyses, analysed, skipped>>
imgVars   == <<image, img_pc, ocr_calls, img_error>>
extVars   == <<html_in, text_in, seen_ctas, extract_log>>
fbVars    == <<fallback_passes>>
jobVars   == <<request, job_storage, results_storage, task>>
mpVars    == <<mp_urls, mp_pc, semaphore, mp_tasks, mp_analyses>>
regVars   == <<tasks, deleted_jobs, last_response>>
restVars  == <<extVars, fbVars, jobVars, mpVars, regVars>>
vars      == <<optVars, crawlVars, imgVars, restVars>>

\* ------------------------------------------------------------------ bounds
MaxCtas == 11       \* longest candidate list given to optimize_ctas
MaxOpts == 2        \* most entries in one backend response
MaxPagesBound == 3  \* largest max_pages given to crawl_website
MaxDepthBound == 2  \* largest max_depth given to crawl_website
MaxElems == 2       \* most elements in one markup
MaxCalls == 2       \* most extraction calls in one run
MaxUrls == 6        \* longest URL list given to analyze_multiple_pages

\* jobs created in one run, and user notes appended to one rationale
MaxJobs == 2
MaxNotes == 1
MaxFallbackCtas == 2 \* longest candidate list given to the fallback path
MaxPasses == 2      \* most fallback passes over one candidate list

\* ------------------------------------------------------- generic helpers
Min(a, b) == IF a < b THEN a ELSE b
RECURSIVE SeqContains(_, _, _)
\* does sequence pat occur in sequence s at some position >= k
SeqContains(s, pat, k) ==
    IF k + Len(pat) - 1 > Len(s) THEN FALSE
    ELSE IF SubSeq(s, k, k + Len(pat) - 1) = pat THEN TRUE
    ELSE SeqContains(s, pat, k + 1)

\* batch_size of optimize_ctas
batch_size == 10

\* ============================================================ candidates
\* str.lower() on the words of the vocabulary
Lower(w) ==
    CASE w = "Learn"   -> "learn"
      [] w = "More"    -> "more"
      [] w = "Sign"    -> "sign"
      [] w = "Up"      -> "up"
      [] w = "Pricing" -> "pricing"
      [] w = "Get"     -> "get"
      [] w = "Started" -> "started"
      [] w = "View"    -> "view"
      [] w = "Our"     -> "our"
      [] w = "Plans"   -> "plans"
      [] w = "Submit"  -> "submit"
      [] w = "Buy"     -> "buy"
      [] w = "Now"     -> "now"
      [] w = "About"   -> "about"
      [] w = "Us"      -> "us"
      [] w = "Today"   -> "today"
      [] w = "Free"    -> "free"
      [] w = "Click"   -> "click"
      [] w = "Here"    -> "here"
      [] w = "Know"    -> "know"
      [] w = "Contact" -> "contact"
      [] OTHER         -> w

LowerText(t) == [k \in 1..Len(t) |-> Lower(t[k])]

\* the texts candidates are drawn from
TextPool ==
    << <<"Learn", "More">>, <<"Sign", "Up">>, <<"Pricing">>,
       <<"Get", "Started">>, <<"View", "Our", "Plans">>, <<"Submit">> >>

\* how a candidate holds its cta_type: as the plain string that validation
\* stores under `use_enum_values = True`, or as a CTAType member (a
\* candidate built without validation, or assigned to afterwards)
CtaTypeKinds == {"str", "enum"}

\* ExtractedCTA (id, original_text, cta_type); ids are uuid4 values, hence
\* distinct
ExtractedCTA(i, kind) ==
    [id |-> i, original_text |-> TextPool[(i % Len(TextPool)) + 1], cta_type |-> kind]

CandidateList(n, kind) == [i \in 1..n |-> ExtractedCTA(i, kind)]

\* ========================================================= CTAExtractor
\* A text is a sequence of tokens: words, the marks ".", "!" and "?", which
\* follow the token before them without a blank, and " ", a run of
\* whitespace at either end of a text or after a mark. Two neighbouring
\* words are one blank apart.
Terminators == {".", "!", "?"}
Space == " "
IsWord(tok) == tok \notin Terminators \cup {Space}

RECURSIVE Strip(_)
\* str.strip()
Strip(t) ==
    IF t = <<>> THEN t
    ELSE IF Head(t) = Space THEN Strip(Tail(t))
    ELSE IF t[Len(t)] = Space THEN Strip(SubSeq(t, 1, Len(t) - 1))
    ELSE t

\* len(text.split()): the whitespace-separated chunks of a text
WordCount(t) ==
    Cardinality({k \in 1..Len(t) :
        /\ t[k] # Space
        /\ (k = 1 \/ IsWord(t[k]) \/ t[k - 1] = Space)})

\* len() of a token of the vocabulary, in characters
CharLen(tok) ==
    CASE tok \in Terminators \cup {Space, "x"} -> 1
      [] tok \in {"us", "up"} -> 2
      [] tok \in {"get", "now", "our", "buy"} -> 3
      [] tok \in {"sign", "more", "view", "free", "here", "know"} -> 4
      [] tok \in {"about", "today", "learn", "plans", "click"} -> 5
      [] tok = "submit" -> 6
      [] OTHER -> 7    \* "started", "pricing", "contact"

RECURSIVE TextLen(_, _)
\* len(text) of the first k tokens: the tokens and the blanks between words
TextLen(t, k) ==
    IF k = 0 THEN 0
    ELSE TextLen(t, k - 1) + CharLen(Lower(t[k]))
         + (IF k > 1 /\ IsWord(t[k]) /\ t[k - 1] # Space THEN 1 ELSE 0)

RECURSIVE SplitSentences(_, _, _)
\* re.split(r'[.!?]\s+', text): a mark splits when whitespace follows it,
\* that is when the next token is not another mark; the mark is dropped
SplitSentences(text, k, cur) ==
    IF k > Len(text) THEN <<cur>>
    ELSE IF text[k] \in Terminators /\ k < Len(text) /\ text[k + 1] \notin Terminators
         THEN <<cur>> \o SplitSentences(text, k + 1, <<>>)
    ELSE SplitSentences(text, k + 1, Append(cur, text[k]))

\* CTA_KEYWORDS without a blank: the lower-case vocabulary words that
\* contain one of them as a substring
KeywordWords == {"buy", "contact", "view", "now", "know", "today"}

\* CTA_KEYWORDS with a blank, as word sequences
KeywordPhrases ==
    { <<"get", "started">>, <<"start", "now">>, <<"sign", "up">>,
      <<"start", "free">>, <<"learn", "more">>, <<"read", "more">>,
      <<"see", "more">>, <<"find", "out">>, <<"don't", "wait">>,
      <<"act", "now">> }

\* imperative_patterns of _is_potential_cta over the vocabulary
ImperativeStart == {"get", "started", "sign", "buy"}   \* ^(get|start|...|sign|...)
ImperativeEnd   == {"now", "know", "today"}            \* (now|today)$
ImperativeSecond == {"free", "now", "today"}           \* ^[a-z]+ (free|now|today)
ClickTap == << <<"click", "here">>, <<"click", "now">> >>   \* (click|tap) (here|now)

\* _is_potential_cta
is_potential_cta(text) ==
    LET text_lower == Strip(LowerText(text))
        n          == Len(text_lower)
    IN  IF text = <<>> \/ TextLen(text, Len(text)) < 2 \/ TextLen(text, Len(text)) > 100
        THEN FALSE
        ELSE \/ \E k \in 1..n : text_lower[k] \in KeywordWords
             \/ \E ph \in KeywordPhrases : SeqContains(text_lower, ph, 1)
             \/ n >= 1 /\ text_lower[1] \in ImperativeStart
             \/ n >= 1 /\ text_lower[n] \in ImperativeEnd
             \/ n >= 2 /\ IsWord(text_lower[1]) /\ text_lower[2] \in ImperativeSecond
             \/ \E j \in 1..Len(ClickTap) : SeqContains(text_lower, ClickTap[j], 1)

\* the context string _get_surrounding_context gives a sentence
get_surrounding_context == "surrounding"

RECURSIVE TextCandidates(_, _, _)
\* the loop of extract_from_text over sentences k..: one candidate per
\* stripped sentence that passes the heuristic; cta_type is TEXT_CTA, held
\* as a string after validation
TextCandidates(sentences, k, context) ==
    IF k > Len(sentences) THEN <<>>
    ELSE LET sentence == Strip(sentences[k]) IN
         (IF is_potential_cta(sentence)
          THEN << [id |-> k, original_text |-> sentence, cta_type |-> "str",
                   context |-> IF context # "" THEN context
                               ELSE get_surrounding_context,
                   location |-> k] >>
          ELSE <<>>)
         \o TextCandidates(sentences, k + 1, context)

\* extract_from_text
extract_from_text(text, context) ==
    TextCandidates(SplitSentences(text, 1, <<>>), 1, context)

\* ---- extract_from_html ------------------------------------------------
RECURSIVE Ascending(_)
\* the numbers of a set in increasing order: document order of elements
Ascending(S) ==
    IF S = {} THEN <<>>
    ELSE LET m == CHOOSE x \in S : \A y \in S : x <= y
         IN  <<m>> \o Ascending(S \ {m})

\* An element of the markup: tag, type attribute ("none" when absent), its
\* text (the value attribute of an input), whether it stands inside a form,
\* its class ("none", "btn", "cta"), whether href or class carry a
\* navigation indicator, and the text around it
Element(tag, type, text, in_form, cls, nav, ctx) ==
    [tag |-> tag, type |-> type, text |-> text, in_form |-> in_form,
     cls |-> cls, nav |-> nav, ctx |-> ctx]

\* _get_element_text
get_element_text(el) == IF el.tag = "input" THEN el.text ELSE Strip(el.text)

\* _get_element_context: the text around the element, else the sentinel
get_element_context(el) ==
    IF el.ctx # "" THEN el.ctx ELSE "No context available"

\* _get_element_location, _get_form_context: descriptors of where the
\* element stands
get_element_location(k) == k
get_form_context(el) == "form"

\* nav_indicators of _is_navigation_link found in a vocabulary word
NavWords == {"about", "contact"}

\* _is_navigation_link
is_navigation_link(el) ==
    \/ \E k \in 1..Len(el.text) : Lower(el.text[k]) \in NavWords
    \/ el.nav

\* _has_cta_styling
has_cta_styling(el) == el.cls # "none"

\* strong_patterns of _is_standalone_cta over the vocabulary
StrongPhrases ==
    { <<"free", "trial">>, <<"get", "started">>, <<"sign", "up">>,
      <<"learn", "more">>, <<"contact", "us">> }
StrongEnd == {"now", "know", "today", "free"}

\* _is_standalone_cta
is_standalone_cta(text) ==
    LET text_lower == Strip(LowerText(text))
        n          == Len(text_lower)
    IN  /\ is_potential_cta(text)
        /\ ~(WordCount(text) > 8)
        /\ \/ n >= 1 /\ text_lower[1] \in ImperativeStart
           \/ \E ph \in StrongPhrases : SeqContains(text_lower, ph, 1)
           \/ n >= 1 /\ text_lower[n] \in StrongEnd

HtmlCta(id, text, type, context, location) ==
    [id |-> id, original_text |-> text, cta_type |-> type,
     context |-> context, location |-> location]

\* find_all(['button', 'input'], type=['button', 'submit'])
IsSubmitControl(el) ==
    el.tag \in {"button", "input"} /\ el.type \in {"button", "submit"}

\* _extract_button_ctas
extract_button_ctas(markup) ==
    LET idx == Ascending({k \in 1..Len(markup) :
                   /\ IsSubmitControl(markup[k])
                   /\ get_element_text(markup[k]) # <<>>
                   /\ is_potential_cta(get_element_text(markup[k]))})
    IN  [j \in 1..Len(idx) |->
           LET el == markup[idx[j]] IN
           HtmlCta(idx[j], get_element_text(el),
                   IF el.tag = "button" THEN "button" ELSE "form_submit",
                   get_element_context(el), get_element_location(idx[j]))]

\* _extract_link_ctas
extract_link_ctas(markup) ==
    LET idx == Ascending({k \in 1..Len(markup) :
                   /\ markup[k].tag = "a"
                   /\ ~is_navigation_link(markup[k])
                   /\ get_element_text(markup[k]) # <<>>
                   /\ is_potential_cta(get_element_text(markup[k]))
                   /\ has_cta_styling(markup[k])})
    IN  [j \in 1..Len(idx) |->
           LET el == markup[idx[j]] IN
           HtmlCta(Len(markup) + idx[j], get_element_text(el), "link",
                   get_element_context(el), get_element_location(idx[j]))]

\* _extract_form_ctas: every submit control of a form that has a text
extract_form_ctas(markup) ==
    LET idx == Ascending({k \in 1..Len(markup) :
                   /\ markup[k].in_form /\ IsSubmitControl(markup[k])
                   /\ get_element_text(markup[k]) # <<>>})
    IN  [j \in 1..Len(idx) |->
           LET el == markup[idx[j]] IN
           HtmlCta(2 * Len(markup) + idx[j], get_element_text(el), "form_submit",
                   get_form_context(el), get_element_location(idx[j]))]

\* _extract_text_ctas
extract_text_ctas(markup) ==
    LET idx == Ascending({k \in 1..Len(markup) :
                   /\ markup[k].tag = "p"
                   /\ Strip(markup[k].text) # <<>>
                   /\ ~(TextLen(Strip(markup[k].text), Len(Strip(markup[k].text))) > 100)
                   /\ is_standalone_cta(Strip(markup[k].text))})
    IN  [j \in 1..Len(idx) |->
           LET el == markup[idx[j]] IN
           HtmlCta(3 * Len(markup) + idx[j], Strip(el.text), "text_cta",
                   get_element_context(el), get_element_location(idx[j]))]

RECURSIVE Dedup(_, _, _, _)
\* keep the candidates whose lower-cased text is not in `seen` yet
Dedup(cs, k, seen, out) ==
    IF k > Len(cs) THEN [unique |-> out, seen |-> seen]
    ELSE LET key == LowerText(cs[k].original_text) IN
         IF key \in seen THEN Dedup(cs, k + 1, seen, out)
         ELSE Dedup(cs, k + 1, seen \cup {key}, Append(out, cs[k]))

\* the set of seen texts lives in the instance and is never cleared
deduplicate_ctas_shared(cs, seen_set) == Dedup(cs, 1, seen_set, <<>>)

\* _deduplicate_ctas: case-insensitive by original_text, first occurrence
\* kept, first-seen order; the set of seen texts is local to the call
deduplicate_ctas(cs, seen_set) ==
    [unique |-> Dedup(cs, 1, {}, <<>>).unique, seen |-> seen_set]

\* extract_from_html on an instance whose seen_ctas field is seen_set
extract_from_html(markup, seen_set) ==
    deduplicate_ctas(extract_button_ctas(markup) \o extract_link_ctas(markup)
                     \o extract_form_ctas(markup) \o extract_text_ctas(markup),
                     seen_set)

\* ---- CTALiteralAnalyzer._extract_ctas_from_page ----------------------
\* does the element match the i-th entry of `selectors`
Selects(i, el) ==
    CASE i = 1 -> el.tag = "button"
      [] i = 2 -> el.tag = "input" /\ el.type = "submit"
      [] i = 3 -> el.tag = "input" /\ el.type = "button"
      [] i = 4 -> el.tag = "a" /\ el.cls = "btn"
      [] i = 5 -> el.tag = "a" /\ el.cls = "cta"
      [] i = 7 -> el.cls = "cta"
      [] OTHER -> FALSE   \* a[class*="button"], .call-to-action, [data-track*="cta"]

\* CTA_PATTERNS["action_verbs"] found in a vocabulary word
ActionVerbWords == {"get", "started", "sign", "buy", "contact", "learn", "view"}

\* CTALiteralAnalyzer._is_potential_cta
analyzer_is_potential_cta(text) ==
    LET text_lower == LowerText(text)
        n          == Len(text_lower)
    IN  /\ \/ \E k \in 1..n : text_lower[k] \in ActionVerbWords
           \/ \E k \in 1..n : text_lower[k] \in {"get", "sign", "buy"}
           \/ \E k \in 1..n : text_lower[k] \in {"free", "now", "today"}
           \/ n >= 1 /\ text_lower[n] = "!"
        /\ 2 <= WordCount(text) /\ WordCount(text) <= 8
        /\ text_lower \notin {<<"home">>, <<"about">>, <<"contact">>,
                               <<"privacy">>, <<"terms">>}

\* element.get_text().strip(): an input has no text of its own
PageText(el) == IF el.tag = "input" THEN <<>> ELSE Strip(el.text)

RECURSIVE PageCtas(_, _, _, _)
\* the loops over selectors i and matched elements j; `found` is the list
\* built so far
PageCtas(markup, i, j, found) ==
    IF i > 9 THEN found
    ELSE LET elements == Ascending({k \in 1..Len(markup) : Selects(i, markup[k])}) IN
         IF j > Len(elements) THEN PageCtas(markup, i + 1, 1, found)
         ELSE LET el   == markup[elements[j]]
                  text == PageText(el)
              IN  IF /\ text # <<>>
                     /\ TextLen(text, Len(text)) < 100
                     /\ analyzer_is_potential_cta(text)
                     /\ ~\E e \in 1..Len(found) :
                           LowerText(found[e].original_text) = LowerText(text)
                  THEN PageCtas(markup, i, j + 1,
                           Append(found, HtmlCta(<<i, j>>, text, el.tag,
                                                get_element_context(el), "page")))
                  ELSE PageCtas(markup, i, j + 1, found)

extract_ctas_from_page(markup) == PageCtas(markup, 1, 1, <<>>)

\* ====================================================== AnalysisService
\* transformations of _apply_basic_optimization_rules, in dict order
transformations ==
    << <<(<<"learn", "more">>),  <<"See", "How", "It", "Works">> >>,
       <<(<<"click", "here">>),  <<"Get", "Started", "Now">> >>,
       <<(<<"submit">>),         <<"Send", "My", "Request">> >>,
       <<(<<"sign", "up">>),     <<"Join", "Free", "Today">> >>,
       <<(<<"register">>),       <<"Create", "Account">> >>,
       <<(<<"try">>),            <<"Start", "Free", "Trial">> >>,
       <<(<<"box", "now">>),     <<"Order", "Now">> >>,
       <<(<<"contact", "us">>),  <<"Get", "Expert", "Help">> >>,
       <<(<<"download">>),       <<"Get", "Free", "Download">> >>,
       <<(<<"read", "more">>),   <<"Learn", "the", "Details">> >> >>

\* lower-case vocabulary words that contain one of the substrings
\* 'get', 'start', 'try', 'join', 'see', 'discover'
ActionSubstringWords == {"get", "started", "start", "try", "join", "see", "discover"}

RECURSIVE LastTransformation(_, _)
\* the table walked to its end: the last matching entry decides
LastTransformation(text_lower, k) ==
    IF k > Len(transformations) THEN 0
    ELSE LET later == LastTransformation(text_lower, k + 1) IN
         IF later # 0 THEN later
         ELSE IF SeqContains(text_lower, transformations[k][1], 1) THEN k
         ELSE 0

RECURSIVE FirstTransformation(_, _)
\* index of the first table entry whose pattern matches, 0 when none does
FirstTransformation(text_lower, k) ==
    IF k > Len(transformations) THEN 0
    ELSE IF SeqContains(text_lower, transformations[k][1], 1) THEN k
    ELSE FirstTransformation(text_lower, k + 1)

\* the word-count test written as `< 2`
apply_basic_optimization_rules_one_word(original_text) ==
    LET text       == Strip(original_text)
        text_lower == LowerText(text)
        hit        == FirstTransformation(text_lower, 1)
    IN  IF hit # 0 THEN transformations[hit][2]
        ELSE IF (\A k \in 1..Len(text_lower) : text_lower[k] \notin ActionSubstringWords)
                /\ WordCount(text) < 2
             THEN <<"Get">> \o text
        ELSE text

\* _apply_basic_optimization_rules
apply_basic_optimization_rules(original_text) ==
    LET text       == Strip(original_text)
        text_lower == LowerText(text)
        hit        == FirstTransformation(text_lower, 1)
    IN  IF hit # 0 THEN transformations[hit][2]
        ELSE IF (\A k \in 1..Len(text_lower) : text_lower[k] \notin ActionSubstringWords)
                /\ WordCount(text) <= 2
             THEN <<"Get">> \o text
        ELSE text

\* a fallback that grades its results: a table rewrite is trusted more
FallbackCTAGraded(cta) ==
    [original_cta_id   |-> cta.id,
     optimized_text    |-> apply_basic_optimization_rules(cta.original_text),
     confidence_score  |->
         IF FirstTransformation(LowerText(Strip(cta.original_text)), 1) # 0
         THEN 7 ELSE 5,
     optimization_type |-> "fallback",
     urgency_level     |-> 5,
     improvement_rationale |->
         "Basic optimization applied due to AI service unavailability"]

\* OptimizedCTA as built by the fallback path
FallbackCTA(cta) ==
    [original_cta_id   |-> cta.id,
     optimized_text    |-> apply_basic_optimization_rules(cta.original_text),
     confidence_score  |-> 5,
     optimization_type |-> "fallback",
     urgency_level     |-> 5,
     improvement_rationale |->
         "Basic optimization applied due to AI service unavailability"]

create_fallback_optimizations(cs) == [k \in 1..Len(cs) |-> FallbackCTA(cs[k])]

\* ---- what the backend may answer -------------------------------------
\* a JSON number field: absent key, a number, or a value that is no number
Num(v) == [kind |-> "num", v |-> v]
Absent == [kind |-> "missing", v |-> 0]
NaN    == [kind |-> "bad", v |-> 0]

\* one element of data["optimizations"]; id 0 is an absent original_cta_id
Entry(id, text, conf, urg) ==
    [dict |-> TRUE, id |-> id, text |-> text, conf |-> conf, urg |-> urg]
NotADict == [dict |-> FALSE, id |-> 0, text |-> "missing", conf |-> Absent, urg |-> Absent]

EntryPool ==
    { Entry(1, "ok", Num(8), Num(7)),
      Entry(0, "ok", Num(8), Num(7)),
      Entry(1, "ok", Num(17), Num(0 - 3)),
      Entry(11, "empty", Num(0 - 2), Num(12)),
      Entry(2, "missing", Absent, Absent),
      Entry(1, "ok", NaN, Num(7)),
      Entry(2, "null", Num(8), Num(7)),
      NotADict }

Responses == UNION { [1..n -> EntryPool] : n \in 0..MaxOpts }

ApiErrors == {"RateLimitError", "APIError", "TimeoutError"}

\* the outcome of one _call_openai_api
Outcomes ==
    { [kind |-> "exception", exc |-> e, entries |-> <<>>] : e \in ApiErrors }
    \cup { [kind |-> "undecodable", exc |-> "none", entries |-> <<>>],
           [kind |-> "notobject", exc |-> "none", entries |-> <<>>] }
    \cup { [kind |-> "json", exc |-> "none", entries |-> r] : r \in Responses }

\* ---- _parse_optimization_response ------------------------------------
\* the bounds forgotten: the value is passed on as it came
ClampNone(lo, hi, v) == v

\* min(hi, max(lo, v))
Clamp(lo, hi, v) == Min(hi, (IF lo > v THEN lo ELSE v))

\* opt_data.get("optimized_text", "")
OptText(e) ==
    CASE e.text = "ok" -> <<"Buy", "Now">>
      [] OTHER         -> <<>>

\* index in original_ctas of matching_cta, 0 for None
MatchingCta(e, optimizations, original_ctas) ==
    IF \E k \in 1..Len(original_ctas) : original_ctas[k].id = e.id
    THEN CHOOSE k \in 1..Len(original_ctas) : original_ctas[k].id = e.id
    ELSE IF original_ctas # <<>> /\ Len(optimizations) < Len(original_ctas)
         THEN 1
         ELSE 0

\* pydantic validation of OptimizedCTA(...)
ValidOptimizedCTA(text_kind, conf, urg) ==
    /\ text_kind # "null"
    /\ conf >= 0 /\ conf <= 10
    /\ urg >= 0 /\ urg <= 10

RECURSIVE ParseEntries(_, _, _, _)
ParseEntries(entries, k, optimizations, original_ctas) ==
    IF k > Len(entries) THEN [exc |-> "none", optimizations |-> optimizations]
    ELSE LET e == entries[k] IN
      IF ~e.dict THEN [exc |-> "AttributeError", optimizations |-> optimizations]
      ELSE LET m == MatchingCta(e, optimizations, original_ctas) IN
        IF m = 0 THEN ParseEntries(entries, k + 1, optimizations, original_ctas)
        ELSE IF e.conf.kind = "bad" \/ e.urg.kind = "bad"
             THEN [exc |-> "TypeError", optimizations |-> optimizations]
        ELSE LET conf == Clamp(0, 10, IF e.conf.kind = "missing" THEN 7 ELSE e.conf.v)
                 urg  == Clamp(0, 10, IF e.urg.kind = "missing" THEN 5 ELSE e.urg.v)
             IN IF ~ValidOptimizedCTA(e.text, conf, urg)
                THEN [exc |-> "ValidationError", optimizations |-> optimizations]
                ELSE ParseEntries(entries, k + 1,
                        Append(optimizations,
                               [original_cta_id   |-> original_ctas[m].id,
                                optimized_text    |-> OptText(e),
                                confidence_score  |-> conf,
                                optimization_type |-> "general",
                                urgency_level     |-> urg]),
                        original_ctas)

\* returns the exception raised ("none" when it returns normally) and the
\* local list `optimizations` as it stood at that moment
parse_optimization_response(response, original_ctas) ==
    CASE response.kind = "undecodable" -> [exc |-> "ValueError", optimizations |-> <<>>]
      [] response.kind = "notobject"   -> [exc |-> "AttributeError", optimizations |-> <<>>]
      [] OTHER -> ParseEntries(response.entries, 1, <<>>, original_ctas)

\* create_optimization_prompt evaluates cta.cta_type.value for every
\* candidate: AttributeError when cta_type is a plain string
PromptRaises(batch) == \E k \in 1..Len(batch) : batch[k].cta_type = "str"

\* the log entry of a batch that never reached the backend
NoCall == [kind |-> "nocall", exc |-> "none", entries |-> <<>>]

\* _process_cta_batch: the prompt, the backend call, then the parse;
\* re-raises anything. `called` tells whether the backend was reached.
process_cta_batch(outcome, batch) ==
    IF PromptRaises(batch)
    THEN [exc |-> "AttributeError", optimizations |-> <<>>, called |-> FALSE]
    ELSE IF outcome.kind = "exception"
    THEN [exc |-> outcome.exc, optimizations |-> <<>>, called |-> TRUE]
    ELSE [called |-> TRUE] @@ parse_optimization_response(outcome, batch)

\* a handler that only expects the decode error of the parser
CatchesOnlyValueError(exc) == exc = "ValueError"

\* `except Exception` of optimize_ctas
Catches(exc) == TRUE

\* ctas[i:i + batch_size]
Batch(cs, i) == SubSeq(cs, i + 1, Min(i + batch_size, Len(cs)))

\* a failed batch keeps what was parsed before the failure and falls back
\* only for the candidates after it
BatchContributionSalvage(r, batch) ==
    IF r.exc = "none" THEN r.optimizations
    ELSE r.optimizations \o
         create_fallback_optimizations(
             SubSeq(batch, Len(r.optimizations) + 1, Len(batch)))

\* what one batch adds to all_optimizations: the parsed results, or on any
\* caught exception the fallback results of the whole batch
BatchContribution(r, batch) ==
    IF r.exc = "none" THEN r.optimizations
    ELSE create_fallback_optimizations(batch)

\* ---- optimize_ctas ---------------------------------------------------
\* the empty-input return left out: the first request is sent regardless
optimize_ctas_start_unguarded ==
    /\ opt_pc = "start"
    /\ all_optimizations' = <<>>
    /\ batch_start' = 0
    /\ opt_pc' = "call"
    /\ UNCHANGED <<ctas, api_calls, batch_log>>

\* entry of optimize_ctas: the empty-input return, else the first batch
optimize_ctas_start ==
    /\ opt_pc = "start"
    /\ all_optimizations' = <<>>
    /\ batch_start' = 0
    /\ opt_pc' = IF ctas = <<>> THEN "done" ELSE "call"
    /\ UNCHANGED <<ctas, api_calls, batch_log>>

\* one iteration of the batch loop, up to the next loop test
optimize_ctas_batch ==
    /\ opt_pc = "call"
    /\ \E outcome \in Outcomes :
         LET batch == Batch(ctas, batch_start)
             r     == process_cta_batch(outcome, batch)
             out   == BatchContribution(r, batch)
         IN  /\ api_calls' = api_calls + (IF r.called THEN 1 ELSE 0)
             /\ IF r.exc = "none" \/ Catches(r.exc)
                THEN /\ all_optimizations' = all_optimizations \o out
                     /\ batch_log' = Append(batch_log,
                            [start |-> batch_start,
                             outcome |-> IF r.called THEN outcome ELSE NoCall,
                             exc |-> r.exc, out |-> out])
                     /\ batch_start' = batch_start + batch_size
                     /\ opt_pc' = IF batch_start + batch_size < Len(ctas)
                                  THEN "call" ELSE "done"
                ELSE /\ opt_pc' = "raised"
                     /\ UNCHANGED <<all_optimizations, batch_log, batch_start>>
    /\ UNCHANGED ctas

\* ======================================================= CrawlerService
\* A URL of the site: the page it addresses, whether it is written with a
\* trailing slash, and whether it carries a #fragment.
Url(p, slash, frag) == [page |-> p, slash |-> slash, frag |-> frag]

\* the site that is crawled; per page: is the URL path empty (after
\* strip('/')), does the URL contain a high / medium priority keyword or a
\* skip pattern of should_crawl_url, is the markup CTA-rich, the candidates
\* extract_from_html finds, and the hrefs of the page resolved by urljoin
Site ==
    [home    |-> [path_empty |-> TRUE,  high |-> FALSE, medium |-> FALSE,
                  skip |-> FALSE, rich |-> TRUE,  ctas |-> 2,
                  hrefs |-> << Url("pricing", FALSE, FALSE), Url("pricing", TRUE, FALSE),
                               Url("about", FALSE, FALSE), Url("buy", FALSE, FALSE),
                               Url("home", FALSE, TRUE) >>],
     pricing |-> [path_empty |-> FALSE, high |-> TRUE,  medium |-> FALSE,
                  skip |-> FALSE, rich |-> TRUE,  ctas |-> 3,
                  hrefs |-> << Url("home", TRUE, FALSE), Url("about", TRUE, FALSE),
                               Url("login", FALSE, FALSE) >>],
     about   |-> [path_empty |-> FALSE, high |-> FALSE, medium |-> TRUE,
                  skip |-> FALSE, rich |-> FALSE, ctas |-> 0,
                  hrefs |-> << Url("pricing", TRUE, FALSE), Url("features", FALSE, FALSE),
                               Url("buy", FALSE, FALSE) >>],
     \* "/?buy=1" and "/?features=all": empty path, told apart by the query
     buy     |-> [path_empty |-> TRUE,  high |-> TRUE,  medium |-> FALSE,
                  skip |-> FALSE, rich |-> FALSE, ctas |-> 1,
                  hrefs |-> << Url("pricing", FALSE, FALSE) >>],
     features |-> [path_empty |-> TRUE, high |-> FALSE, medium |-> TRUE,
                  skip |-> FALSE, rich |-> TRUE,  ctas |-> 1,
                  hrefs |-> << Url("home", FALSE, FALSE), Url("about", FALSE, FALSE) >>],
     login   |-> [path_empty |-> FALSE, high |-> FALSE, medium |-> FALSE,
                  skip |-> TRUE,  rich |-> TRUE,  ctas |-> 1,
                  hrefs |-> << >>]]

\* the URL compared as it was written
normalize_url_raw(url) == url

\* normalize_url: scheme://netloc/path?query, i.e. the fragment dropped,
\* then rstrip('/')
normalize_url(url) == Url(url.page, FALSE, FALSE)

\* should_crawl_url: http(s), same domain, no file download, no skip pattern
should_crawl_url(url) == ~Site[url.page].skip

\* ScraperService.extract_page_links: absolute same-domain URLs with the
\* fragment cut off, without repetitions and without base_url itself
RECURSIVE CollectLinks(_, _, _, _)
CollectLinks(hrefs, k, base_url, links) ==
    IF k > Len(hrefs) THEN links
    ELSE LET clean_url == Url(hrefs[k].page, hrefs[k].slash, FALSE) IN
         IF (\A j \in 1..Len(links) : links[j] # clean_url) /\ clean_url # base_url
         THEN CollectLinks(hrefs, k + 1, base_url, Append(links, clean_url))
         ELSE CollectLinks(hrefs, k + 1, base_url, links)

extract_page_links(page, base_url) == CollectLinks(Site[page].hrefs, 1, base_url, <<>>)

\* prioritize_url: the keyword and richness scores, then the path depth;
\* the path-depth line reads the undefined name parsed_url whenever the
\* path is not empty, which raises NameError
prioritize_url(url) ==
    LET info == Site[url.page]
        priority == (IF info.high THEN 10 ELSE 0) + (IF info.medium THEN 5 ELSE 0)
                    + (IF info.rich THEN 8 ELSE 0)
    IN  IF ~info.path_empty
        THEN [raised |-> TRUE, priority |-> 0]
        ELSE [raised |-> FALSE, priority |-> priority + 3]

\* lines 157-168: the links worth queueing, each with its priority; a link
\* whose fetch (index in failed) or whose scoring raises gets priority 0
RECURSIVE PrioritizeLinks(_, _, _, _, _, _)
PrioritizeLinks(new_links, k, failed, visited, depth, prioritized_links) ==
    IF k > Len(new_links) THEN prioritized_links
    ELSE LET link == new_links[k] IN
         IF should_crawl_url(link) /\ normalize_url(link) \notin visited
         THEN LET r == prioritize_url(link)
                  priority == IF k \in failed \/ r.raised THEN 0 ELSE r.priority
              IN PrioritizeLinks(new_links, k + 1, failed, visited, depth,
                     Append(prioritized_links,
                            [priority |-> priority, link |-> link, depth |-> depth + 1]))
         ELSE PrioritizeLinks(new_links, k + 1, failed, visited, depth, prioritized_links)

\* list.sort(key=priority, reverse=True): descending and stable
RECURSIVE SortByPriority(_, _, _)
SortByPriority(items, k, sorted) ==
    IF k > Len(items) THEN sorted
    ELSE LET x == items[k]
             n == Cardinality({j \in 1..Len(sorted) : sorted[j].priority >= x.priority})
         IN SortByPriority(items, k + 1,
                SubSeq(sorted, 1, n) \o <<x>> \o SubSeq(sorted, n + 1, Len(sorted)))

RECURSIVE EnqueueUnbounded(_, _, _, _)
\* every prioritized link is appended, whatever the length of the queue
EnqueueUnbounded(queue, items, k, limit) ==
    IF k > Len(items) THEN queue
    ELSE EnqueueUnbounded(Append(queue, <<items[k].link, items[k].depth>>),
                          items, k + 1, limit)

\* lines 173-176: append while the queue is below 2 * max_pages
RECURSIVE Enqueue(_, _, _, _)
Enqueue(queue, items, k, limit) ==
    IF k > Len(items) THEN queue
    ELSE IF Len(queue) < limit
         THEN Enqueue(Append(queue, <<items[k].link, items[k].depth>>), items, k + 1, limit)
         ELSE Enqueue(queue, items, k + 1, limit)

\* str(e) of the exceptions a fetch raises: an aiohttp.ClientError carries
\* a message, the asyncio.TimeoutError of the session timeout carries none
ExceptionTexts == {"Cannot connect to host", ""}

\* what fetch_html_async gives: the markup, or one of the exceptions
FetchOutcomes == {"ok"} \cup ExceptionTexts

\* PageAnalysis.error of a record built without an error: None
NoError == "None"

\* `if analysis.error`: None and the empty string both count as no error
Truthy(error) == error \notin {NoError, ""}

\* _analyze_page_async: one PageAnalysis; when the fetch or the parse
\* raised e, the record carries error = str(e)
analyze_page_async(url, fetched) ==
    IF fetched = "ok"
    THEN [url |-> url, ctas_found |-> Site[url.page].ctas,
          extracted_ctas |-> Site[url.page].ctas, error |-> NoError]
    ELSE [url |-> url, ctas_found |-> 0, extracted_ctas |-> 0, error |-> fetched]

\* the PageAnalysis built by the except branch of the crawl loop for the
\* exception whose text is e
error_analysis(url, e) ==
    [url |-> url, ctas_found |-> 0, extracted_ctas |-> 0, error |-> e]

\* crawl_website up to the loop: state cleared, start URL queued
crawl_start ==
    /\ crawl_pc = "init"
    /\ visited_urls' = {}
    /\ page_analyses' = <<>>
    /\ crawl_queue' = << <<start_url, 0>> >>
    /\ crawl_pc' = "loop"
    /\ UNCHANGED <<start_url, max_pages, max_depth, analysed, skipped>>

\* the visited URL is left at the front of the queue
crawl_skip_visited_no_pop ==
    /\ crawl_pc = "loop"
    /\ crawl_queue # <<>> /\ Len(page_analyses) < max_pages
    /\ normalize_url(Head(crawl_queue)[1]) \in visited_urls
    /\ UNCHANGED <<start_url, max_pages, max_depth, crawl_pc, visited_urls,
                   crawl_queue, page_analyses, analysed, skipped>>

\* an iteration that pops an already visited URL: `continue`
crawl_skip_visited ==
    /\ crawl_pc = "loop"
    /\ crawl_queue # <<>> /\ Len(page_analyses) < max_pages
    /\ LET current_url == Head(crawl_queue)[1] IN
         /\ normalize_url(current_url) \in visited_urls
         /\ crawl_queue' = Tail(crawl_queue)
         /\ skipped' = Append(skipped, current_url)
    /\ UNCHANGED <<start_url, max_pages, max_depth, crawl_pc, visited_urls,
                   page_analyses, analysed>>

\* an iteration that analyses the popped URL; page_fetch, links_fetch and failed
\* are the outcomes of the fetches it makes
crawl_page ==
    /\ crawl_pc = "loop"
    /\ crawl_queue # <<>> /\ Len(page_analyses) < max_pages
    /\ LET current_url == Head(crawl_queue)[1]
           depth       == Head(crawl_queue)[2]
           queue       == Tail(crawl_queue)
           visited     == visited_urls \cup {normalize_url(current_url)}
       IN
         /\ normalize_url(current_url) \notin visited_urls
         /\ visited_urls' = visited
         /\ analysed' = Append(analysed, current_url)
         /\ \E page_fetch \in FetchOutcomes :
              LET page_analysis == analyze_page_async(current_url, page_fetch) IN
              IF depth < max_depth /\ ~Truthy(page_analysis.error)
              THEN \E links_fetch \in FetchOutcomes :
                     IF links_fetch = "ok"
                     THEN \E failed \in SUBSET (1..Len(Site[current_url.page].hrefs)) :
                            LET new_links == extract_page_links(current_url.page, current_url)
                                prioritized_links ==
                                    SortByPriority(
                                        PrioritizeLinks(new_links, 1, failed, visited, depth, <<>>),
                                        1, <<>>)
                            IN /\ page_analyses' = Append(page_analyses, page_analysis)
                               /\ crawl_queue' = Enqueue(queue, prioritized_links, 1, max_pages * 2)
                     ELSE \* the second fetch of current_url raised: except branch
                          /\ page_analyses' = Append(Append(page_analyses, page_analysis),
                                                     error_analysis(current_url, links_fetch))
                          /\ crawl_queue' = queue
              ELSE /\ page_analyses' = Append(page_analyses, page_analysis)
                   /\ crawl_queue' = queue
    /\ UNCHANGED <<start_url, max_pages, max_depth, crawl_pc, skipped>>

\* the loop test fails: return self.page_analyses
crawl_return ==
    /\ crawl_pc = "loop"
    /\ ~(crawl_queue # <<>> /\ Len(page_analyses) < max_pages)
    /\ crawl_pc' = "done"
    /\ UNCHANGED <<start_url, max_pages, max_depth, visited_urls, crawl_queue,
                   page_analyses, analysed, skipped>>

\* =========================================================== OCRService
\* widths and heights of uploaded images, in pixels
Dimensions == {30, 50, 300, 5000, 5001}

\* encoded sizes in bytes: 1 KB, exactly 10 MB, one byte more
EncodedSizes == {1024, 10485760, 10485761}

\* validate_image: decodable, 50..5000 px each way, at most 10 MB
validate_image(img) ==
    /\ img.decodable
    /\ ~(img.width < 50 \/ img.height < 50)
    /\ ~(img.width > 5000 \/ img.height > 5000)
    /\ ~(img.bytes > 10 * 1024 * 1024)

\* _process_image_analysis: the job leaves PENDING
process_image_analysis_start ==
    /\ img_pc = "pending"
    /\ img_pc' = "processing"
    /\ UNCHANGED <<image, ocr_calls, img_error>>

\* process_image_data, lines 35-41: base64 decode and Image.open; a failure
\* is re-raised as ValueError and fails the job
process_image_data_open ==
    /\ img_pc = "processing"
    /\ IF image.decodable
       THEN img_pc' = "decoded" /\ img_error' = img_error
       ELSE img_pc' = "failed" /\ img_error' = "Image processing failed"
    /\ UNCHANGED <<image, ocr_calls>>

\* extract_text_from_image: preprocessing, then pytesseract.image_to_string
extract_text_from_image ==
    /\ img_pc = "decoded"
    /\ ocr_calls' = ocr_calls + 1
    /\ \E result \in {"text", "TesseractNotFoundError", "Exception"} :
         IF result = "text"
         THEN img_pc' = "ocr_done" /\ img_error' = img_error
         ELSE img_pc' = "failed" /\ img_error' = "Image processing failed"
    /\ UNCHANGED image

\* the rest of the job: candidates from the text, optimization, results
process_image_analysis_finish ==
    /\ img_pc = "ocr_done"
    /\ img_pc' = "completed"
    /\ UNCHANGED <<image, ocr_calls, img_error>>

OptIdle ==
    /\ ctas = <<>> /\ opt_pc = "idle" /\ batch_start = 0
    /\ all_optimizations = <<>> /\ api_calls = 0 /\ batch_log = <<>>

CrawlIdle ==
    /\ start_url = <<>> /\ max_pages = 0 /\ max_depth = 0
    /\ crawl_pc = "idle" /\ visited_urls = {} /\ crawl_queue = <<>>
    /\ page_analyses = <<>> /\ analysed = <<>> /\ skipped = <<>>

ImgIdle ==
    /\ image = [width |-> 300, height |-> 300, bytes |-> 1024, decodable |-> TRUE]
    /\ img_pc = "idle" /\ ocr_calls = 0 /\ img_error = "none"

\* ================================================== extraction calls
\* the CTAExtractor instances: ScraperService() builds one each time
Instances == {"a", "b"}

\* the elements markups are built from
ElementPool ==
    { Element("button", "submit", <<"Sign", "Up">>, FALSE, "none", FALSE, ""),
      Element("button", "button", <<"sign", "up">>, FALSE, "btn", FALSE, "hero"),
      Element("button", "submit", <<"Sign", "Up">>, TRUE, "none", FALSE, ""),
      Element("input", "submit", <<"Submit">>, TRUE, "none", FALSE, ""),
      Element("a", "none", <<"Learn", "More">>, FALSE, "btn", FALSE, "hero"),
      Element("a", "none", <<"Get", "Started">>, FALSE, "cta", FALSE, ""),
      Element("a", "none", <<"Contact", "Us">>, FALSE, "btn", FALSE, ""),
      Element("p", "none", <<"Get", "Started">>, FALSE, "none", FALSE, "hero"),
      Element("button", "none", <<"Buy", "Now">>, FALSE, "none", FALSE, "") }

\* the texts given to extract_from_text
TextInputs ==
    { <<>>,
      <<"Get", "Started", "Now", ".", "About", "Us", ".", "Sign", "Up", "Today", ".">>,
      <<"Get", "Started", "Now", ".", "About", "Us", ".", "Sign", "Up", "Today", ".", " ">>,
      <<"Sign", "Up", ".", "sign", "up", "!", "Sign", "Up">>,
      <<"Pricing", ".", "x", "?", "Know">>,
      <<"Click", "Here", "!", "Our", "Plans", "Free">>,
      <<"Buy", "Now", "?", "!", "Learn", "More">>,
      <<"About", "Us", "?", "Our", "Plans">> }

\* scraper.cta_extractor.extract_from_html(html, url) on instance inst
extract_from_html_call ==
    /\ Len(extract_log) < MaxCalls
    /\ \E inst \in Instances :
         LET r == extract_from_html(html_in, seen_ctas[inst]) IN
         /\ extract_log' = Append(extract_log,
                               [op |-> "html", inst |-> inst, out |-> r.unique])
         /\ seen_ctas' = [seen_ctas EXCEPT ![inst] = r.seen]
    /\ UNCHANGED <<html_in, text_in>>

\* cta_extractor.extract_from_text(text, None)
extract_from_text_call ==
    /\ Len(extract_log) < MaxCalls
    /\ \E inst \in Instances :
         extract_log' = Append(extract_log,
                               [op |-> "text", inst |-> inst,
                                out |-> extract_from_text(text_in, "")])
    /\ UNCHANGED <<html_in, text_in, seen_ctas>>

\* CTALiteralAnalyzer._extract_ctas_from_page(soup, page_url, base_url)
extract_ctas_from_page_call ==
    /\ Len(extract_log) < MaxCalls
    /\ extract_log' = Append(extract_log,
                             [op |-> "page", inst |-> "analyzer",
                              out |-> extract_ctas_from_page(html_in)])
    /\ UNCHANGED <<html_in, text_in, seen_ctas>>

\* ===================================================== fallback passes
\* the texts of the candidates given to the fallback path
FallbackTexts ==
    { <<"Learn", "More">>, <<"Sign", "Up", "Learn", "More">>, <<"Pricing">>,
      <<"Get", "Started">>, <<"View", "Our", "Plans">>, <<"Submit">>,
      <<" ", "Pricing", " ">>, <<"About", "Us", ".">>, <<"Click", "Here">>,
      <<"Contact", "Us">>, <<"Our", "Plans">>, <<"Started">> }

\* one call of _create_fallback_optimizations(ctas)
fallback_pass ==
    /\ Len(fallback_passes) < MaxPasses
    /\ fallback_passes' = Append(fallback_passes, create_fallback_optimizations(ctas))

\* ========================================================== analysis jobs
\* job ids are uuid4 values; one job is followed
JobIds == {"job1"}

\* the empty job_storage / results_storage
NoJobs == [j \in {} |-> 0]

NoTask == [pc |-> "none", job_id |-> "none"]

\* AnalysisJob as the endpoints create it
AnalysisJob(input_type) ==
    [input_type |-> input_type, status |-> "pending", error_message |-> "",
     progress |-> 0, pages_analyzed |-> 0, total_ctas_found |-> 0,
     total_optimizations |-> 0]

\* the texts of text requests and the texts OCR reads from an image
JobTexts == { <<"Sign", "Up", "!", "About", "Us">>, <<"About", "Us">> }

RECURSIVE CtaCount(_, _)
\* number of candidates on the first k records that carry no error
CtaCount(pages, k) ==
    IF k = 0 THEN 0
    ELSE CtaCount(pages, k - 1)
         + (IF Truthy(pages[k].error) THEN 0 ELSE pages[k].extracted_ctas)

\* CrawlerService.get_all_ctas: the candidates of the pages without error
get_all_ctas(pages) == CandidateList(CtaCount(pages, Len(pages)), "str")

\* OCRService._enhance_image_ctas: cta_type overwritten by a string
enhance_image_ctas(cs) == [k \in 1..Len(cs) |-> [cs[k] EXCEPT !.cta_type = "str"]]

\* AnalysisResults as the background task stores it
AnalysisResults(job_id, input_type, total_pages, candidates, optimized) ==
    [job_id |-> job_id, input_type |-> input_type, status |-> "completed",
     total_pages |-> total_pages, total_ctas_found |-> Len(candidates),
     extracted_ctas |-> candidates, optimized_ctas |-> optimized]

\* analyze_url / analyze_text / analyze_image: the job is stored as PENDING
\* and the background task is scheduled
analyze_request ==
    /\ task.pc = "none"
    /\ \E job_id \in JobIds \ DOMAIN job_storage :
         /\ job_storage' = job_storage @@ (job_id :> AnalysisJob(request.input_type))
         /\ task' = [pc |-> "scheduled", job_id |-> job_id]
    /\ UNCHANGED <<request, results_storage, optVars, crawlVars, imgVars>>

\* _process_*_analysis up to its first await: the job is looked up and set
\* to PROCESSING; the text path extracts its candidates at once
process_analysis_start ==
    /\ task.pc = "scheduled"
    /\ task.job_id \in DOMAIN job_storage
    /\ LET job == job_storage[task.job_id] IN
       CASE request.input_type = "url" ->
              /\ job_storage' = [job_storage EXCEPT ![task.job_id] =
                     [job EXCEPT !.status = "processing", !.progress = 10]]
              /\ crawl_pc' = "init"
              /\ task' = [task EXCEPT !.pc = "crawl"]
              /\ UNCHANGED <<optVars, imgVars, start_url, max_pages, max_depth,
                             visited_urls, crawl_queue, page_analyses, analysed, skipped>>
         [] request.input_type = "text" ->
              LET cs == extract_from_text(request.text, request.context) IN
              /\ job_storage' = [job_storage EXCEPT ![task.job_id] =
                     [job EXCEPT !.status = "processing", !.progress = 60,
                                 !.total_ctas_found = Len(cs)]]
              /\ ctas' = cs /\ opt_pc' = "start"
              /\ task' = [task EXCEPT !.pc = "optimize"]
              /\ UNCHANGED <<crawlVars, imgVars, batch_start, all_optimizations,
                             api_calls, batch_log>>
         [] OTHER ->
              /\ job_storage' = [job_storage EXCEPT ![task.job_id] =
                     [job EXCEPT !.status = "processing", !.progress = 20]]
              /\ img_pc' = "processing"
              /\ task' = [task EXCEPT !.pc = "ocr"]
              /\ UNCHANGED <<optVars, crawlVars, image, ocr_calls, img_error>>
    /\ UNCHANGED <<request, results_storage>>

\* _process_url_analysis, lines 357-367: crawl_website has returned
process_url_collect ==
    /\ task.pc = "crawl" /\ crawl_pc = "done"
    /\ LET all_ctas == get_all_ctas(page_analyses) IN
       /\ job_storage' = [job_storage EXCEPT ![task.job_id] =
              [@ EXCEPT !.pages_analyzed = Len(page_analyses),
                        !.total_ctas_found = Len(all_ctas), !.progress = 70]]
       /\ ctas' = all_ctas /\ opt_pc' = "start"
    /\ task' = [task EXCEPT !.pc = "optimize"]
    /\ UNCHANGED <<request, results_storage, crawlVars, imgVars, batch_start,
                   all_optimizations, api_calls, batch_log>>

\* process_image_data, lines 46-53: candidates from the OCR text
process_image_collect ==
    /\ task.pc = "ocr"
    /\ process_image_analysis_finish
    /\ LET cs == enhance_image_ctas(extract_from_text(request.text, request.context)) IN
       /\ job_storage' = [job_storage EXCEPT ![task.job_id] =
              [@ EXCEPT !.total_ctas_found = Len(cs), !.progress = 60]]
       /\ ctas' = cs /\ opt_pc' = "start"
    /\ task' = [task EXCEPT !.pc = "optimize"]
    /\ UNCHANGED <<request, results_storage, crawlVars, batch_start,
                   all_optimizations, api_calls, batch_log>>

\* the results are built and stored, the job is COMPLETED
process_analysis_complete ==
    /\ task.pc = "optimize" /\ opt_pc = "done"
    /\ LET job == job_storage[task.job_id] IN
       /\ results_storage' = results_storage @@
              (task.job_id :> AnalysisResults(task.job_id, job.input_type,
                    IF job.input_type = "url" THEN Len(page_analyses) ELSE 1,
                    ctas, all_optimizations))
       /\ job_storage' = [job_storage EXCEPT ![task.job_id] =
              [job EXCEPT !.total_optimizations = Len(all_optimizations),
                          !.status = "completed", !.progress = 100]]
    /\ task' = [task EXCEPT !.pc = "finished"]
    /\ UNCHANGED <<request, optVars, crawlVars, imgVars>>

\* an exception is pending in the task: process_image_data or optimize_ctas
\* raised
TaskRaised ==
    \/ task.pc = "ocr" /\ img_pc = "failed"
    \/ task.pc = "optimize" /\ opt_pc = "raised"

\* str(e) of the pending exception
str_exception == IF img_pc = "failed" THEN img_error ELSE "optimization failed"

\* no handler: the exception ends the task and the job is left as it is
process_analysis_failed_unhandled ==
    /\ TaskRaised
    /\ task' = [task EXCEPT !.pc = "finished"]
    /\ UNCHANGED <<request, job_storage, results_storage, optVars, crawlVars, imgVars>>

\* `except Exception as e`: the job is FAILED with str(e)
process_analysis_failed ==
    /\ TaskRaised
    /\ job_storage' = [job_storage EXCEPT ![task.job_id] =
           [@ EXCEPT !.status = "failed", !.error_message = str_exception]]
    /\ task' = [task EXCEPT !.pc = "finished"]
    /\ UNCHANGED <<request, results_storage, optVars, crawlVars, imgVars>>

\* ================== the job registry under concurrent requests
\* job ids are uuid4 values, never issued twice
RegistryJobIds == 1..MaxJobs

\* dict without the key
WithoutKey(storage, job_id) == [j \in DOMAIN storage \ {job_id} |-> storage[j]]

\* an assignment to a field of the task's job object: the registry shows it
\* while it still holds the object
JobObjectWrite(job_id, job) ==
    IF job_id \in DOMAIN job_storage
    THEN [job_storage EXCEPT ![job_id] = job]
    ELSE job_storage

\* analyze_url: the job is stored as PENDING and the task is scheduled
analyze_url ==
    /\ \E job_id \in RegistryJobIds \ DOMAIN tasks :
         /\ job_storage' = job_storage @@ (job_id :> AnalysisJob("url"))
         /\ tasks' = tasks @@
                (job_id :> [pc |-> "scheduled", job |-> AnalysisJob("url")])
    /\ last_response' = [op |-> "analyze_url", code |-> 200]
    /\ UNCHANGED <<results_storage, deleted_jobs>>

\* GET /jobs/{job_id}/status
get_job_status(job_id) ==
    /\ last_response' = [op |-> "get_job_status",
                         code |-> IF job_id \in DOMAIN job_storage THEN 200 ELSE 404]
    /\ UNCHANGED <<job_storage, results_storage, tasks, deleted_jobs>>

\* GET /jobs/{job_id}/results
get_analysis_results(job_id) ==
    /\ last_response' =
          [op |-> "get_analysis_results",
           code |-> IF job_id \in DOMAIN results_storage THEN 200
                    ELSE IF job_id \notin DOMAIN job_storage THEN 404
                    ELSE IF job_storage[job_id].status = "processing" THEN 202
                    ELSE IF job_storage[job_id].status = "failed" THEN 500
                    ELSE 404]
    /\ UNCHANGED <<job_storage, results_storage, tasks, deleted_jobs>>

\* PUT /jobs/{job_id}/edit-cta: the first entry of results.optimized_ctas
\* with the id is rewritten
edit_cta(job_id, edit_request) ==
    /\ IF job_id \notin DOMAIN results_storage
       THEN /\ last_response' = [op |-> "edit_cta", code |-> 404]
            /\ UNCHANGED results_storage
       ELSE LET results == results_storage[job_id] IN
            IF \E k \in 1..Len(results.optimized_ctas) :
                   results.optimized_ctas[k].original_cta_id = edit_request.cta_id
            THEN /\ edit_request.notes # "None" =>
                       \A k \in 1..Len(results.optimized_ctas) :
                           Len(results.optimized_ctas[k].improvement_rationale) <= MaxNotes
                 /\ LET hits == {k \in 1..Len(results.optimized_ctas) :
                                results.optimized_ctas[k].original_cta_id
                                    = edit_request.cta_id}
                        first == CHOOSE k \in hits : \A h \in hits : k <= h
                    IN  results_storage' = [results_storage EXCEPT
                          ![job_id].optimized_ctas[first] =
                              [@ EXCEPT !.optimized_text = edit_request.new_text,
                                        !.improvement_rationale =
                                            IF edit_request.notes = "None" THEN @
                                            ELSE Append(@, edit_request.notes)]]
                 /\ last_response' = [op |-> "edit_cta", code |-> 200]
            ELSE /\ last_response' = [op |-> "edit_cta", code |-> 404]
                 /\ UNCHANGED results_storage
    /\ UNCHANGED <<job_storage, tasks, deleted_jobs>>

\* DELETE /jobs/{job_id}
delete_job(job_id) ==
    LET deleted_items == {s \in {"job", "results"} :
            \/ s = "job" /\ job_id \in DOMAIN job_storage
            \/ s = "results" /\ job_id \in DOMAIN results_storage}
    IN  /\ job_storage' = WithoutKey(job_storage, job_id)
        /\ results_storage' = WithoutKey(results_storage, job_id)
        /\ IF deleted_items = {}
           THEN /\ last_response' = [op |-> "delete_job", code |-> 404]
                /\ UNCHANGED deleted_jobs
           ELSE /\ last_response' = [op |-> "delete_job", code |-> 200]
                /\ deleted_jobs' = deleted_jobs \cup {job_id}
        /\ UNCHANGED tasks

\* _process_url_analysis, lines 338-345: the registry lookup, outside the
\* try block, and the first assignments to the job
process_url_analysis_lookup(job_id) ==
    /\ tasks[job_id].pc = "scheduled"
    /\ IF job_id \in DOMAIN job_storage
       THEN LET job == [tasks[job_id].job EXCEPT !.status = "processing",
                                                 !.progress = 10] IN
            /\ tasks' = [tasks EXCEPT ![job_id] = [pc |-> "crawl", job |-> job]]
            /\ job_storage' = JobObjectWrite(job_id, job)
       ELSE /\ tasks' = [tasks EXCEPT ![job_id].pc = "KeyError"]
            /\ UNCHANGED job_storage
    /\ UNCHANGED <<results_storage, deleted_jobs, last_response>>

\* lines 357-363: crawl_website has returned
process_url_analysis_crawled(job_id) ==
    /\ tasks[job_id].pc = "crawl"
    /\ LET job == [tasks[job_id].job EXCEPT !.pages_analyzed = 1,
                        !.total_ctas_found = 1, !.progress = 70] IN
       /\ tasks' = [tasks EXCEPT ![job_id] = [pc |-> "optimize", job |-> job]]
       /\ job_storage' = JobObjectWrite(job_id, job)
    /\ UNCHANGED <<results_storage, deleted_jobs, last_response>>

\* lines 369-392: optimize_ctas has returned (the crawl found one candidate);
\* the results are stored under the job id and the job is COMPLETED
process_url_analysis_store(job_id) ==
    /\ tasks[job_id].pc = "optimize"
    /\ LET job == [tasks[job_id].job EXCEPT !.total_optimizations = 1,
                        !.status = "completed", !.progress = 100] IN
       /\ LET all_ctas == CandidateList(1, "str")
              results == AnalysisResults(job_id, "url", 1, all_ctas,
                  [k \in 1..Len(all_ctas) |->
                      [FallbackCTA(all_ctas[k]) EXCEPT !.improvement_rationale = <<@>>]])
          IN  results_storage' =
                  [j \in DOMAIN results_storage \cup {job_id} |->
                      IF j = job_id THEN results ELSE results_storage[j]]
       /\ tasks' = [tasks EXCEPT ![job_id] = [pc |-> "finished", job |-> job]]
       /\ job_storage' = JobObjectWrite(job_id, job)
    /\ UNCHANGED <<deleted_jobs, last_response>>

\* lines 396-400: crawl_website or optimize_ctas raised
process_url_analysis_except(job_id) ==
    /\ tasks[job_id].pc \in {"crawl", "optimize"}
    /\ LET job == [tasks[job_id].job EXCEPT !.status = "failed",
                        !.error_message = "analysis failed"] IN
       /\ tasks' = [tasks EXCEPT ![job_id] = [pc |-> "finished", job |-> job]]
       /\ job_storage' = JobObjectWrite(job_id, job)
    /\ UNCHANGED <<results_storage, deleted_jobs, last_response>>

\* ============================ ScraperService.analyze_multiple_pages
\* asyncio.Semaphore(5)
max_concurrent == 5

\* a list of n URLs, filled from three pages in turn
UrlList(n) ==
    LET pool == << Url("home", FALSE, FALSE), Url("pricing", FALSE, FALSE),
                   Url("about", FALSE, FALSE) >>
    IN  [i \in 1..n |-> pool[((i - 1) % Len(pool)) + 1]]

\* the PageAnalysis analyze_single_async returns
analyze_single_async(url, fetched) ==
    IF fetched = "ok"
    THEN [url |-> url, ctas_found |-> Site[url.page].ctas,
          extracted_ctas |-> Site[url.page].ctas, error |-> NoError]
    ELSE [url |-> url, ctas_found |-> 0, extracted_ctas |-> 0, error |-> fetched]

\* lines 184-192: the semaphore and one task per URL are created and the
\* tasks are handed to gather
analyze_multiple_pages_start ==
    /\ mp_pc = "start"
    /\ semaphore' = max_concurrent
    /\ mp_tasks' = [i \in 1..Len(mp_urls) |->
                        [pc |-> "created", outcome |-> [kind |-> "none", exc |-> NoError]]]
    /\ mp_pc' = "gather"
    /\ UNCHANGED <<mp_urls, mp_analyses>>

\* the task enters the block without waiting for a free slot
bounded_analyze_acquire_unlimited(i) ==
    /\ mp_pc = "gather" /\ mp_tasks[i].pc = "created"
    /\ semaphore' = semaphore - 1
    /\ mp_tasks' = [mp_tasks EXCEPT ![i].pc = "sleeping"]
    /\ UNCHANGED <<mp_urls, mp_pc, mp_analyses>>

\* `async with semaphore`: task i takes a free slot, then sleeps
bounded_analyze_acquire(i) ==
    /\ mp_pc = "gather" /\ mp_tasks[i].pc = "created"
    /\ semaphore > 0
    /\ semaphore' = semaphore - 1
    /\ mp_tasks' = [mp_tasks EXCEPT ![i].pc = "sleeping"]
    /\ UNCHANGED <<mp_urls, mp_pc, mp_analyses>>

\* the sleep is over: analyze_single_async starts its fetch
bounded_analyze_fetch(i) ==
    /\ mp_pc = "gather" /\ mp_tasks[i].pc = "sleeping"
    /\ mp_tasks' = [mp_tasks EXCEPT ![i].pc = "fetching"]
    /\ UNCHANGED <<mp_urls, mp_pc, semaphore, mp_analyses>>

\* the task ends, one way or another, and leaves the block: the slot is
\* given back
bounded_analyze_exit(i) ==
    /\ mp_pc = "gather" /\ mp_tasks[i].pc = "fetching"
    \* what the task ended with: analyze_single_async returned a page ("ok"),
    \* returned its error record for the exception exc ("failed"), or an
    \* exception left the task ("raised")
    /\ \E outcome \in
            {[kind |-> "ok", exc |-> NoError], [kind |-> "raised", exc |-> "unexpected"]}
            \cup [kind : {"failed"}, exc : ExceptionTexts] :
         mp_tasks' = [mp_tasks EXCEPT ![i] = [pc |-> "done", outcome |-> outcome]]
    /\ semaphore' = semaphore + 1
    /\ UNCHANGED <<mp_urls, mp_pc, mp_analyses>>

\* lines 192-209: gather(return_exceptions=True) returns when every task
\* is done; an exception among the results becomes an error record
gather_return ==
    /\ mp_pc = "gather"
    /\ \A i \in 1..Len(mp_tasks) : mp_tasks[i].pc = "done"
    /\ mp_analyses' =
         [i \in 1..Len(mp_urls) |->
            LET outcome == mp_tasks[i].outcome IN
            IF outcome.kind = "raised"
            THEN [url |-> mp_urls[i], ctas_found |-> 0, extracted_ctas |-> 0,
                  error |-> outcome.exc]
            ELSE analyze_single_async(mp_urls[i],
                     IF outcome.kind = "ok" THEN "ok" ELSE outcome.exc)]
    /\ mp_pc' = "returned"
    /\ UNCHANGED <<mp_urls, semaphore, mp_tasks>>

ExtIdle ==
    /\ html_in = <<>> /\ text_in = <<>>
    /\ seen_ctas = [i \in Instances |-> {}] /\ extract_log = <<>>

FbIdle == fallback_passes = <<>>

JobIdle ==
    /\ request = [input_type |-> "none", text |-> <<>>, context |-> ""]
    /\ job_storage = NoJobs /\ results_storage = NoJobs /\ task = NoTask

MpIdle ==
    /\ mp_urls = <<>> /\ mp_pc = "idle" /\ semaphore = 0
    /\ mp_tasks = <<>> /\ mp_analyses = <<>>

RegIdle ==
    /\ tasks = NoJobs /\ deleted_jobs = {} /\ last_response = [op |-> "none", code |-> 0]

RestIdle == ExtIdle /\ FbIdle /\ JobIdle /\ MpIdle /\ RegIdle

InitOpt ==
    \* list lengths: empty, short, exactly one batch, and the longest one,
    \* which needs a second batch
    /\ \E n \in (0..3) \cup {batch_size, MaxCtas} : \E kind \in CtaTypeKinds :
          ctas = CandidateList(n, kind)
    /\ opt_pc = "start" /\ batch_start = 0
    /\ all_optimizations = <<>> /\ api_calls = 0 /\ batch_log = <<>>
    /\ CrawlIdle /\ ImgIdle /\ RestIdle

NextOpt ==
    \/ optimize_ctas_start /\ UNCHANGED <<crawlVars, imgVars, restVars>>
    \/ optimize_ctas_batch /\ UNCHANGED <<crawlVars, imgVars, restVars>>

SpecOpt == InitOpt /\ [][NextOpt]_vars

InitCrawl ==
    /\ start_url \in { Url("home", FALSE, FALSE), Url("home", TRUE, FALSE),
                       Url("home", FALSE, TRUE), Url("pricing", FALSE, FALSE) }
    /\ max_pages \in 1..MaxPagesBound
    /\ max_depth \in 1..MaxDepthBound
    /\ crawl_pc = "init" /\ visited_urls = {} /\ crawl_queue = <<>>
    /\ page_analyses = <<>> /\ analysed = <<>> /\ skipped = <<>>
    /\ OptIdle /\ ImgIdle /\ RestIdle

NextCrawl ==
    \/ crawl_start /\ UNCHANGED <<optVars, imgVars, restVars>>
    \/ crawl_skip_visited /\ UNCHANGED <<optVars, imgVars, restVars>>
    \/ crawl_page /\ UNCHANGED <<optVars, imgVars, restVars>>
    \/ crawl_return /\ UNCHANGED <<optVars, imgVars, restVars>>

SpecCrawl == InitCrawl /\ [][NextCrawl]_vars

\* the loop is sequential code and every await returns or raises: a step
\* that can be taken is taken
FairSpecCrawl == SpecCrawl /\ WF_vars(NextCrawl)

InitImage ==
    /\ image \in [width : Dimensions, height : Dimensions,
                  bytes : EncodedSizes, decodable : BOOLEAN]
    /\ img_pc = "pending" /\ ocr_calls = 0 /\ img_error = "none"
    /\ OptIdle /\ CrawlIdle /\ RestIdle

NextImage ==
    \/ process_image_analysis_start /\ UNCHANGED <<optVars, crawlVars, restVars>>
    \/ process_image_data_open /\ UNCHANGED <<optVars, crawlVars, restVars>>
    \/ extract_text_from_image /\ UNCHANGED <<optVars, crawlVars, restVars>>
    \/ process_image_analysis_finish /\ UNCHANGED <<optVars, crawlVars, restVars>>

SpecImage == InitImage /\ [][NextImage]_vars

\* ---- extraction calls on one markup or one text
InitExtract ==
    /\ \/ html_in \in (UNION { [1..n -> ElementPool] : n \in 0..MaxElems }) /\ text_in = <<>>
       \/ html_in = <<>> /\ text_in \in TextInputs
    /\ seen_ctas = [i \in Instances |-> {}] /\ extract_log = <<>>
    /\ OptIdle /\ CrawlIdle /\ ImgIdle /\ FbIdle /\ JobIdle /\ MpIdle /\ RegIdle

NextExtract ==
    \/ extract_from_html_call /\ UNCHANGED <<optVars, crawlVars, imgVars, fbVars, jobVars, mpVars, regVars>>
    \/ extract_from_text_call /\ UNCHANGED <<optVars, crawlVars, imgVars, fbVars, jobVars, mpVars, regVars>>
    \/ extract_ctas_from_page_call /\ UNCHANGED <<optVars, crawlVars, imgVars, fbVars, jobVars, mpVars, regVars>>

SpecExtract == InitExtract /\ [][NextExtract]_vars

\* ---- analyze_multiple_pages on one URL list
InitMulti ==
    /\ \E n \in 0..MaxUrls : mp_urls = UrlList(n)
    /\ mp_pc = "start" /\ semaphore = 0
    /\ mp_tasks = <<>> /\ mp_analyses = <<>>
    /\ OptIdle /\ CrawlIdle /\ ImgIdle /\ ExtIdle /\ FbIdle /\ JobIdle /\ RegIdle

NextMulti ==
    \/ analyze_multiple_pages_start /\ UNCHANGED <<optVars, crawlVars, imgVars, extVars, fbVars, jobVars, regVars>>
    \/ (\E i \in 1..Len(mp_tasks) : bounded_analyze_acquire(i))
          /\ UNCHANGED <<optVars, crawlVars, imgVars, extVars, fbVars, jobVars, regVars>>
    \/ (\E i \in 1..Len(mp_tasks) : bounded_analyze_fetch(i))
          /\ UNCHANGED <<optVars, crawlVars, imgVars, extVars, fbVars, jobVars, regVars>>
    \/ (\E i \in 1..Len(mp_tasks) : bounded_analyze_exit(i))
          /\ UNCHANGED <<optVars, crawlVars, imgVars, extVars, fbVars, jobVars, regVars>>
    \/ gather_return /\ UNCHANGED <<optVars, crawlVars, imgVars, extVars, fbVars, jobVars, regVars>>

SpecMulti == InitMulti /\ [][NextMulti]_vars

\* ---- the registry under requests and background tasks of several jobs
NextRegistry ==
    \/ analyze_url
          /\ UNCHANGED <<optVars, crawlVars, imgVars, extVars, fbVars, mpVars, request, task>>
    \/ (\E job_id \in RegistryJobIds : get_job_status(job_id))
          /\ UNCHANGED <<optVars, crawlVars, imgVars, extVars, fbVars, mpVars, request, task>>
    \/ (\E job_id \in RegistryJobIds : get_analysis_results(job_id))
          /\ UNCHANGED <<optVars, crawlVars, imgVars, extVars, fbVars, mpVars, request, task>>
    \/ (\E job_id \in RegistryJobIds,
            edit_request \in [cta_id : 1..2, new_text : {<<"Try", "It", "Free">>},
                              notes : {"None", "ok"}] :
            edit_cta(job_id, edit_request))
          /\ UNCHANGED <<optVars, crawlVars, imgVars, extVars, fbVars, mpVars, request, task>>
    \/ (\E job_id \in RegistryJobIds : delete_job(job_id))
          /\ UNCHANGED <<optVars, crawlVars, imgVars, extVars, fbVars, mpVars, request, task>>
    \/ (\E job_id \in DOMAIN tasks : process_url_analysis_lookup(job_id))
          /\ UNCHANGED <<optVars, crawlVars, imgVars, extVars, fbVars, mpVars, request, task>>
    \/ (\E job_id \in DOMAIN tasks : process_url_analysis_crawled(job_id))
          /\ UNCHANGED <<optVars, crawlVars, imgVars, extVars, fbVars, mpVars, request, task>>
    \/ (\E job_id \in DOMAIN tasks : process_url_analysis_store(job_id))
          /\ UNCHANGED <<optVars, crawlVars, imgVars, extVars, fbVars, mpVars, request, task>>
    \/ (\E job_id \in DOMAIN tasks : process_url_analysis_except(job_id))
          /\ UNCHANGED <<optVars, crawlVars, imgVars, extVars, fbVars, mpVars, request, task>>

InitRegistry == OptIdle /\ CrawlIdle /\ ImgIdle /\ RestIdle

SpecRegistry == InitRegistry /\ [][NextRegistry]_vars

\* ---- fallback passes over one candidate list
InitFallback ==
    /\ \E n \in 0..MaxFallbackCtas : \E f \in [1..n -> FallbackTexts] :
          ctas = [k \in 1..n |-> [id |-> k, original_text |-> f[k], cta_type |-> "str"]]
    /\ opt_pc = "idle" /\ batch_start = 0
    /\ all_optimizations = <<>> /\ api_calls = 0 /\ batch_log = <<>>
    /\ fallback_passes = <<>>
    /\ CrawlIdle /\ ImgIdle /\ ExtIdle /\ JobIdle /\ MpIdle /\ RegIdle

NextFallback ==
    fallback_pass /\ UNCHANGED <<optVars, crawlVars, imgVars, extVars, jobVars, mpVars, regVars>>

SpecFallback == InitFallback /\ [][NextFallback]_vars

\* ---- one analysis job from its creation to the end of its task
InitJob ==
    /\ job_storage = NoJobs /\ results_storage = NoJobs /\ task = NoTask
    /\ \/ /\ request = [input_type |-> "url", text |-> <<>>, context |-> ""]
          /\ start_url = Url("home", FALSE, TRUE)
          /\ max_pages \in 1..3
          /\ max_depth = 1
          /\ crawl_pc = "idle" /\ visited_urls = {} /\ crawl_queue = <<>>
          /\ page_analyses = <<>> /\ analysed = <<>> /\ skipped = <<>>
          /\ ImgIdle
       \/ /\ request \in [input_type : {"text"}, text : JobTexts,
                           context : {"", "landing page"}]
          /\ CrawlIdle /\ ImgIdle
       \/ /\ request \in [input_type : {"image"}, text : JobTexts, context : {""}]
          /\ image \in [width : {300}, height : {300}, bytes : {1024},
                        decodable : BOOLEAN]
          /\ img_pc = "idle" /\ ocr_calls = 0 /\ img_error = "none"
          /\ CrawlIdle
    /\ OptIdle /\ ExtIdle /\ FbIdle /\ MpIdle /\ RegIdle

NextJob ==
    \/ analyze_request /\ UNCHANGED <<extVars, fbVars, mpVars, regVars>>
    \/ process_analysis_start /\ UNCHANGED <<extVars, fbVars, mpVars, regVars>>
    \/ crawl_start /\ UNCHANGED <<optVars, imgVars, restVars>>
    \/ crawl_skip_visited /\ UNCHANGED <<optVars, imgVars, restVars>>
    \/ crawl_page /\ UNCHANGED <<optVars, imgVars, restVars>>
    \/ crawl_return /\ UNCHANGED <<optVars, imgVars, restVars>>
    \/ process_url_collect /\ UNCHANGED <<extVars, fbVars, mpVars, regVars>>
    \/ process_image_data_open /\ UNCHANGED <<optVars, crawlVars, restVars>>
    \/ extract_text_from_image /\ UNCHANGED <<optVars, crawlVars, restVars>>
    \/ process_image_collect /\ UNCHANGED <<extVars, fbVars, mpVars, regVars>>
    \/ optimize_ctas_start /\ UNCHANGED <<crawlVars, imgVars, restVars>>
    \/ optimize_ctas_batch /\ UNCHANGED <<crawlVars, imgVars, restVars>>
    \/ process_analysis_complete /\ UNCHANGED <<extVars, fbVars, mpVars, regVars>>
    \/ process_analysis_failed /\ UNCHANGED <<extVars, fbVars, mpVars, regVars>>

SpecJob == InitJob /\ [][NextJob]_vars

\* the event loop runs a scheduled task, and a task whose awaited call has
\* returned or raised is resumed
FairSpecJob == SpecJob /\ WF_vars(NextJob)

\* ======================================================= claims: engine
RECURSIVE Flatten(_, _)
\* the `out` fields of the first k log records, concatenated
Flatten(log, k) == IF k = 0 THEN <<>> ELSE Flatten(log, k - 1) \o log[k].out

IdCount(results, id) ==
    Cardinality({j \in 1..Len(results) : results[j].original_cta_id = id})

\* C1: for a non-empty candidate list optimize_ctas returns exactly one
\* result per input candidate: same length, every candidate id exactly once.
C1_OneResultPerCandidate ==
    (opt_pc = "done" /\ ctas # <<>>) =>
        /\ Len(all_optimizations) = Len(ctas)
        /\ \A k \in 1..Len(ctas) : IdCount(all_optimizations, ctas[k].id) = 1

\* C2: a batch whose call raised, whose text did not decode, or whose parse
\* raised at some entry contributes exactly the fallback results: one per
\* candidate of the batch, in input order, bound to that candidate's id, and
\* nothing derived from the response.
C2_FailedBatchIsFallback ==
    /\ opt_pc \in {"call", "done"} => all_optimizations = Flatten(batch_log, Len(batch_log))
    /\ \A k \in 1..Len(batch_log) :
         LET e     == batch_log[k]
             batch == Batch(ctas, e.start)
             failed == \/ e.outcome.kind # "json"
                       \/ e.exc # "none"
                       \/ \E j \in 1..Len(e.outcome.entries) : ~e.outcome.entries[j].dict
         IN  failed =>
               /\ Len(e.out) = Len(batch)
               /\ \A j \in 1..Len(batch) :
                    /\ e.out[j].original_cta_id = batch[j].id
                    /\ e.out[j].optimization_type = "fallback"
                    /\ e.out[j].confidence_score = 5
                    /\ e.out[j].urgency_level = 5

\* a parse that had already built a result from the response when it failed
C2_Witness ==
    /\ opt_pc = "done"
    /\ Len(ctas) >= 2
    /\ \E k \in 1..Len(batch_log) :
         /\ batch_log[k].exc \in {"TypeError", "ValidationError", "AttributeError"}
         /\ Len(batch_log[k].outcome.entries) = 2
         /\ batch_log[k].outcome.entries[1] = Entry(1, "ok", Num(8), Num(7))
         /\ batch_log[k].start = 0

\* C3: optimize_ctas never raises for a non-empty candidate list; every
\* failure of a batch ends in fallback results and the loop goes on.
C3_NeverRaises ==
    /\ opt_pc # "raised"
    /\ \A k \in 1..Len(batch_log) :
         batch_log[k].exc # "none" => batch_log[k].out # <<>>

\* both batches failed, once in the call and once in result construction
C3_Witness ==
    /\ opt_pc = "done"
    /\ Len(batch_log) = 2
    /\ batch_log[1].exc \in ApiErrors
    /\ batch_log[2].exc = "ValidationError"

\* C4: an empty candidate list gives an empty result and no backend call.
C4_EmptyInput ==
    ctas = <<>> =>
        /\ api_calls = 0
        /\ opt_pc = "done" => all_optimizations = <<>>

C4_Witness == opt_pc = "done" /\ ctas = <<>> /\ batch_log = <<>>

\* C5: no two results of one run carry the same original_cta_id.
C5_NoDuplicateResults ==
    opt_pc = "done" =>
        \A i, j \in 1..Len(all_optimizations) :
            i # j => all_optimizations[i].original_cta_id
                         # all_optimizations[j].original_cta_id

\* the value a number field of the response must be stored as
Stored(lo, hi, default, f) ==
    LET v == IF f.kind = "missing" THEN default ELSE f.v
    IN  IF v < lo THEN lo ELSE IF v > hi THEN hi ELSE v

\* C6: every result has confidence_score in [0,1] and urgency_level in
\* [0,10]; an out-of-range number is stored as the nearest bound and a
\* missing one as the default, and neither rejects the entry or the batch.
C6_ClampedNotRejected ==
    /\ \A j \in 1..Len(all_optimizations) :
         /\ all_optimizations[j].confidence_score \in 0..10
         /\ all_optimizations[j].urgency_level \in 0..10
    /\ \A k \in 1..Len(batch_log) :
         LET e  == batch_log[k]
             es == e.outcome.entries
         IN  (/\ e.outcome.kind = "json"
              /\ \A j \in 1..Len(es) :
                   /\ es[j].dict /\ es[j].text # "null"
                   /\ es[j].conf.kind # "bad" /\ es[j].urg.kind # "bad")
             => /\ e.exc = "none"
                /\ \A r \in 1..Len(e.out) : \E j \in 1..Len(es) :
                     /\ e.out[r].confidence_score = Stored(0, 10, 7, es[j].conf)
                     /\ e.out[r].urgency_level = Stored(0, 10, 5, es[j].urg)
                /\ (e.start = 0 /\ es = << Entry(1, "ok", Num(17), Num(0 - 3)) >>)
                     => /\ Len(e.out) = 1
                        /\ e.out[1].confidence_score = 10
                        /\ e.out[1].urgency_level = 0

\* the response of the example (1.7 and -3) and one with both fields missing
C6_Witness ==
    /\ opt_pc = "done"
    /\ Len(batch_log) = 1
    /\ batch_log[1].outcome.entries =
           << Entry(1, "ok", Num(17), Num(0 - 3)), Entry(2, "missing", Absent, Absent) >>
    /\ Len(all_optimizations) = 2
    /\ all_optimizations[1].confidence_score = 10
    /\ all_optimizations[2].confidence_score = 7

\* ====================================================== claims: crawler
\* C7: with max_pages >= 1 the list of Page Analysis records never has more
\* than max_pages entries, during the crawl and at return.
C7_AtMostMaxPages ==
    crawl_pc \in {"loop", "done"} => Len(page_analyses) <= max_pages

\* C8: no normalized URL (fragment and trailing slash stripped) is analysed
\* twice in one run, and a queue entry is skipped only when its normalized
\* URL has been analysed before.
C8_NoRevisit ==
    /\ \A i, j \in 1..Len(analysed) :
         i # j => analysed[i].page # analysed[j].page
    /\ \A k \in 1..Len(skipped) :
         \E i \in 1..Len(analysed) : analysed[i].page = skipped[k].page

\* a URL written differently from the one analysed was popped and skipped
C8_Witness ==
    /\ crawl_pc = "done"
    /\ \E k \in 1..Len(skipped) : \E i \in 1..Len(analysed) :
         /\ analysed[i].page = skipped[k].page
         /\ analysed[i] # skipped[k]
         /\ skipped[k].slash

\* C9: the returned list never holds two records for the same visited URL.
C9_OneRecordPerUrl ==
    \A i, j \in 1..Len(page_analyses) :
        i # j => page_analyses[i].url # page_analyses[j].url

\* ================================================== claims: image path
\* C10: an image that fails validation (a dimension below 50 px or above
\* 5000 px, or more than 10 MB encoded) never reaches an OCR invocation.
C10_RejectedBeforeOcr ==
    ~validate_image(image) => ocr_calls = 0


\* ========================================================= claims: jobs
\* the first PageAnalysis is that of the start URL
SeedFetchFailed == page_analyses # <<>> /\ page_analyses[1].error # NoError

JobEnded(j) == j \in DOMAIN job_storage /\ job_storage[j].status \in {"completed", "failed"}

\* C11: a URL-analysis job fails at job level exactly when the start URL
\* cannot be fetched: then it ends FAILED with an error message and without
\* a stored results object; otherwise it completes.
C11_SeedFailureFailsJob ==
    \A j \in DOMAIN job_storage :
        (job_storage[j].input_type = "url" /\ task.pc = "finished") =>
            IF SeedFetchFailed
            THEN /\ job_storage[j].status = "failed"
                 /\ job_storage[j].error_message # ""
                 /\ j \notin DOMAIN results_storage
            ELSE job_storage[j].status = "completed"

\* C12: every created job eventually ends COMPLETED with a results object
\* stored under its id or FAILED with a non-empty error message, and a job
\* that has ended never changes its status again.
C12_JobEndsAndStays ==
    /\ \A j \in JobIds : (j \in DOMAIN job_storage) ~> JobEnded(j)
    /\ [][\A j \in DOMAIN job_storage' :
            /\ job_storage'[j].status = "completed" => j \in DOMAIN results_storage'
            /\ job_storage'[j].status = "failed" => job_storage'[j].error_message # ""
            /\ JobEnded(j) => job_storage'[j].status = job_storage[j].status]_vars

\* a job that failed in its OCR step
C12_Witness ==
    \E j \in DOMAIN job_storage :
        /\ job_storage[j].status = "failed"
        /\ job_storage[j].input_type = "image"
        /\ task.pc = "finished"

\* ===================================================== claims: fallback
\* the i-th table entry matches the text
TableMatches(i, text) ==
    SeqContains(LowerText(Strip(text)), transformations[i][1], 1)

NoTableMatch(text) == \A i \in 1..Len(transformations) : ~TableMatches(i, text)

\* the optimized_text pass p gives candidate k
Rewritten(p, k) == fallback_passes[p][k].optimized_text

\* C13: the fallback rewrite is table-driven and depends only on the text:
\* "Learn More" gives "See How It Works", the first matching entry of the
\* table decides, and every pass gives equal texts the same optimized_text.
C13_FallbackTableDriven ==
    \A p \in 1..Len(fallback_passes) :
        /\ Len(fallback_passes[p]) = Len(ctas)
        /\ \A k \in 1..Len(ctas) :
             LET text == ctas[k].original_text IN
             /\ text = <<"Learn", "More">> => Rewritten(p, k) = <<"See", "How", "It", "Works">>
             /\ \A i \in 1..Len(transformations) :
                  (TableMatches(i, text) /\ \A j \in 1..(i - 1) : ~TableMatches(j, text))
                      => Rewritten(p, k) = transformations[i][2]
             /\ \A q \in 1..Len(fallback_passes) : \A m \in 1..Len(ctas) :
                  ctas[m].original_text = text => Rewritten(q, m) = Rewritten(p, k)

\* two passes over a list that holds "Learn More" and a text which two
\* table entries match
C13_Witness ==
    /\ Len(fallback_passes) = 2
    /\ \E k, m \in 1..Len(ctas) :
         /\ ctas[k].original_text = <<"Learn", "More">>
         /\ ctas[m].original_text = <<"Sign", "Up", "Learn", "More">>
         /\ Rewritten(2, m) = <<"See", "How", "It", "Works">>

\* C19 as stated: when no table entry matches, a text of at most 2 words
\* becomes "Get " followed by the original text and any other text is
\* returned unchanged.
C19_NoMatchRule ==
    \A p \in 1..Len(fallback_passes) : \A k \in 1..Len(ctas) :
        LET text == ctas[k].original_text IN
        NoTableMatch(text) =>
            Rewritten(p, k) = IF WordCount(text) <= 2 THEN <<"Get">> \o text ELSE text

\* the text contains one of 'get', 'start', 'try', 'join', 'see', 'discover'
HasActionWord(text) ==
    \E k \in 1..Len(text) :
        Lower(text[k]) \in {"get", "started", "start", "try", "join", "see", "discover"}

\* C19 amended: when no table entry matches, a text of at most 2 words that
\* contains none of the substrings get, start, try, join, see, discover
\* (ignoring case) becomes "Get " followed by the stripped text; any other
\* text is returned stripped and otherwise unchanged.
C19_NoMatchRuleAmended ==
    \A p \in 1..Len(fallback_passes) : \A k \in 1..Len(ctas) :
        LET text == ctas[k].original_text IN
        NoTableMatch(text) =>
            Rewritten(p, k) = IF WordCount(text) <= 2 /\ ~HasActionWord(text)
                              THEN <<"Get">> \o Strip(text) ELSE Strip(text)

\* "Get Started" is kept as it is, "Our Plans" gets the prefix
C19_Witness ==
    /\ Len(fallback_passes) >= 1 /\ Len(ctas) = 2
    /\ ctas[1].original_text = <<"Get", "Started">>
    /\ Rewritten(1, 1) = <<"Get", "Started">>
    /\ ctas[2].original_text = <<"Our", "Plans">>
    /\ Rewritten(1, 2) = <<"Get", "Our", "Plans">>

\* C20: every fallback result has optimization_type "fallback",
\* confidence_score 0.5, urgency_level 5 and one fixed rationale string,
\* whatever the text of the candidate.
C20_FallbackFieldsFixed ==
    \A p \in 1..Len(fallback_passes) : \A k \in 1..Len(fallback_passes[p]) :
        LET o == fallback_passes[p][k] IN
        /\ o.optimization_type = "fallback"
        /\ o.confidence_score = 5
        /\ o.urgency_level = 5
        /\ o.improvement_rationale =
               "Basic optimization applied due to AI service unavailability"
        /\ o.improvement_rationale = fallback_passes[1][1].improvement_rationale

\* a pass over a table-rewritten text and a text no entry matches
C20_Witness ==
    /\ Len(fallback_passes) >= 1 /\ Len(ctas) = 2
    /\ ~NoTableMatch(ctas[1].original_text)
    /\ NoTableMatch(ctas[2].original_text)

\* ==================================================== claims: extraction
\* the texts of a candidate list, in order
Texts(out) == [k \in 1..Len(out) |-> out[k].original_text]

\* a candidate list without the ids
NoIds(out) ==
    [k \in 1..Len(out) |->
        [original_text |-> out[k].original_text, cta_type |-> out[k].cta_type,
         context |-> out[k].context, location |-> out[k].location]]

\* C14: the list one call of extract_from_html or extract_from_text returns
\* never holds two candidates whose texts are equal ignoring case, and the
\* kept candidates are in first-seen order.
C14_NoCaseInsensitiveDuplicates ==
    \A c \in 1..Len(extract_log) :
        LET out == extract_log[c].out IN
        extract_log[c].op \in {"html", "text"} =>
            /\ \A a, b \in 1..Len(out) :
                 LowerText(out[a].original_text) = LowerText(out[b].original_text)
                     => a = b
            /\ extract_log[c].op = "text" =>
                 \A a, b \in 1..Len(out) : a < b => out[a].location < out[b].location

\* C15: extract_from_html on identical markup returns the same ordered
\* list (ids excluded) on every call, on the same instance or on another
\* one: it is the list a new extractor returns.
C15_ExtractFromHtmlIdempotent ==
    \A c, d \in 1..Len(extract_log) :
        (extract_log[c].op = "html" /\ extract_log[d].op = "html") =>
            /\ NoIds(extract_log[c].out) = NoIds(extract_log[d].out)
            /\ NoIds(extract_log[c].out) = NoIds(extract_from_html(html_in, {}).unique)

\* two calls on one instance over a markup with two buttons "Sign Up" and
\* "sign up": each call returns the one candidate "Sign Up"
C15_Witness ==
    /\ Len(html_in) = 2
    /\ html_in[1].text = <<"Sign", "Up">> /\ html_in[2].text = <<"sign", "up">>
    /\ Len(extract_log) = 2
    /\ extract_log[1].op = "html" /\ extract_log[2].op = "html"
    /\ extract_log[1].inst = extract_log[2].inst
    /\ Texts(extract_log[2].out) = << <<"Sign", "Up">> >>

\* C16: extract_from_text on "Get Started Now. About Us. Sign Up Today."
\* returns exactly the two candidates "Get Started Now" and "Sign Up Today".
C16_SentenceExample ==
    \A c \in 1..Len(extract_log) :
        (/\ extract_log[c].op = "text"
         /\ text_in = <<"Get", "Started", "Now", ".", "About", "Us", ".",
                        "Sign", "Up", "Today", ".">>)
            => Texts(extract_log[c].out) =
                   << <<"Get", "Started", "Now">>, <<"Sign", "Up", "Today">> >>

\* ================================================ claims: optimize_ctas
\* C17: an optimization whose original_cta_id is the id of a candidate of
\* the batch is bound to that candidate; one whose id is absent or not
\* recognised is bound by position: the k-th returned optimization to the
\* k-th candidate of the batch.
C17_BoundByIdElsePosition ==
    \A b \in 1..Len(batch_log) :
        LET rec     == batch_log[b]
            batch   == Batch(ctas, rec.start)
            entries == rec.outcome.entries
        IN  (rec.exc = "none" /\ rec.outcome.kind = "json"
             /\ Len(rec.out) = Len(entries)) =>
                \A k \in 1..Len(entries) :
                    IF \E c \in 1..Len(batch) : batch[c].id = entries[k].id
                    THEN rec.out[k].original_cta_id = entries[k].id
                    ELSE k <= Len(batch) => rec.out[k].original_cta_id = batch[k].id

\* C18: the input is processed as consecutive batches of at most 10
\* candidates in input order, one after another: exactly one backend call
\* has been issued per processed batch, each batch contributes what its own
\* outcome gives, and the output lists the batches' results in batch order.
C18_OneCallPerBatchInOrder ==
    /\ api_calls = Len(batch_log)
    /\ \A k \in 1..Len(batch_log) :
         /\ batch_log[k].start = (k - 1) * batch_size
         /\ Len(Batch(ctas, batch_log[k].start)) \in 1..10
         /\ batch_log[k].exc # "none" =>
                batch_log[k].out =
                    create_fallback_optimizations(Batch(ctas, batch_log[k].start))
    /\ all_optimizations = Flatten(batch_log, Len(batch_log))
    /\ opt_pc = "call" => batch_start = Len(batch_log) * batch_size
    /\ (opt_pc = "done" /\ ctas # <<>>) =>
           Len(batch_log) = (Len(ctas) + batch_size - 1) \div batch_size

\* C21: every result returned by optimize_ctas has a non-empty
\* optimized_text, model-derived or fallback.
C21_NonEmptyOptimizedText ==
    opt_pc = "done" =>
        \A k \in 1..Len(all_optimizations) : all_optimizations[k].optimized_text # <<>>

\* ============================================== claims: crawler, part 2
\* C22: with max_pages >= 1 the crawl queue never holds more than
\* 2 * max_pages entries.
C22_QueueBounded ==
    crawl_pc \in {"loop", "done"} => Len(crawl_queue) <= 2 * max_pages

\* the queue is full and links of the page just analysed were left out
C22_Witness ==
    /\ crawl_pc = "loop" /\ max_pages = 2 /\ Len(analysed) = 1
    /\ Len(crawl_queue) = 2 * max_pages
    /\ Len(page_analyses) = 1 /\ page_analyses[1].error = NoError

\* the page analysed by this step failed: its record carries an error text
PageFailed == page_analyses'[Len(page_analyses) + 1].error # NoError

\* C23: every queue entry and every analysed page has depth at most
\* max_depth; links are enqueued, at depth + 1, only from a page whose
\* fetch succeeded and whose depth is below max_depth, never from a failed
\* page.
C23_DepthBounded ==
    /\ [](\A k \in 1..Len(crawl_queue) : crawl_queue[k][2] <= max_depth)
    /\ [][(crawl_queue # <<>> /\ analysed' # analysed) =>
            /\ Head(crawl_queue)[2] <= max_depth
            /\ crawl_queue' # Tail(crawl_queue) =>
                 /\ Head(crawl_queue)[2] < max_depth
                 /\ ~PageFailed
                 /\ \A k \in Len(crawl_queue)..Len(crawl_queue') :
                      crawl_queue'[k][2] = Head(crawl_queue)[2] + 1]_vars

\* C24: the record of a failed page has ctas_found = 0, no candidates and
\* a populated error field; the crawl is not aborted by it: every page
\* visited has its record and the loop ends only by its own test.
C24_FailedPageRecorded ==
    /\ \A i \in 1..Len(page_analyses) :
         page_analyses[i].error # NoError =>
             /\ page_analyses[i].ctas_found = 0
             /\ page_analyses[i].extracted_ctas = 0
             /\ page_analyses[i].error # ""
    /\ \A k \in 1..Len(analysed) :
         \E i \in 1..Len(page_analyses) : page_analyses[i].url = analysed[k]
    /\ crawl_pc = "done" => (crawl_queue = <<>> \/ Len(page_analyses) >= max_pages)

ClaimedScore(url) ==
    LET info == Site[url.page] IN
    (IF info.high THEN 10 ELSE 0) + (IF info.medium THEN 5 ELSE 0)
    + (IF info.rich THEN 8 ELSE 0) + 3

\* C26: the links discovered on one crawled page are enqueued in
\* descending order of their priority score (+10 high-value keyword, +5
\* medium-value keyword, +8 CTA-rich markup, +3 for a path of 0-1 segments).
C26_EnqueuedByScore ==
    [][(crawl_queue # <<>> /\ analysed' # analysed) =>
         \A a, b \in Len(crawl_queue)..Len(crawl_queue') :
             a < b => ClaimedScore(crawl_queue'[a][1]) >= ClaimedScore(crawl_queue'[b][1])]_vars

\* ================================== claims: analyze_multiple_pages
\* the tasks whose fetch is in flight
InFlight == {i \in 1..Len(mp_tasks) : mp_tasks[i].pc = "fetching"}

\* C27: at most 5 page fetches are in flight at any time.
C27_AtMostFiveInFlight ==
    /\ Cardinality(InFlight) <= 5
    /\ Cardinality({i \in 1..Len(mp_tasks) : mp_tasks[i].pc \in {"sleeping", "fetching"}})
           <= 5

\* five fetches are in flight and a sixth task waits for a slot
C27_Witness ==
    /\ Cardinality(InFlight) = 5
    /\ \E i \in 1..Len(mp_tasks) : mp_tasks[i].pc = "created"

\* C28: the call returns only after every task has finished, with exactly
\* one Page Analysis per input URL in input order; a task that failed gets
\* a record with error set, ctas_found = 0 and no candidates; a failed task
\* neither fails the call nor changes the record of another task.
C28_PartialFailureTolerant ==
    mp_pc = "returned" =>
        /\ \A i \in 1..Len(mp_tasks) : mp_tasks[i].pc = "done"
        /\ Len(mp_analyses) = Len(mp_urls)
        /\ \A i \in 1..Len(mp_urls) :
             /\ mp_analyses[i].url = mp_urls[i]
             /\ mp_tasks[i].outcome.kind \in {"failed", "raised"} =>
                  /\ Truthy(mp_analyses[i].error)
                  /\ mp_analyses[i].ctas_found = 0
                  /\ mp_analyses[i].extracted_ctas = 0
             /\ mp_tasks[i].outcome.kind = "ok" =>
                  /\ ~Truthy(mp_analyses[i].error)
                  /\ mp_analyses[i].ctas_found = Site[mp_urls[i].page].ctas

\* ============================================ claims: extraction, part 2
\* C29: every candidate returned by extract_from_html or extract_from_text
\* has an original_text that passes the CTA heuristic, and so has between
\* 2 and 100 characters.
C29_HeuristicOnEveryPath ==
    \A c \in 1..Len(extract_log) :
        extract_log[c].op \in {"html", "text"} =>
            \A k \in 1..Len(extract_log[c].out) :
                LET text == extract_log[c].out[k].original_text IN
                /\ is_potential_cta(text)
                /\ TextLen(text, Len(text)) >= 2
                /\ TextLen(text, Len(text)) <= 100

\* ================================================= claims: job registry
\* C30: under every interleaving of job creation, background processing,
\* reads, CTA edits and delete_job, results are stored for a job id only
\* while a job record for that id exists, no background task fails on its
\* registry lookup, and after a successful delete_job(id) neither a job
\* nor results for that id are present.
C30_RegistryConsistent ==
    /\ DOMAIN results_storage \subseteq DOMAIN job_storage
    /\ \A job_id \in DOMAIN tasks : tasks[job_id].pc # "KeyError"
    /\ \A job_id \in deleted_jobs :
           job_id \notin DOMAIN job_storage /\ job_id \notin DOMAIN results_storage
====
